---- MODULE Spec2Model ----
(***************************************************************************)
(* quilt3distribute: manifest validation                                   *)
(* and schema inference (validation.py), logical-key derivation            *)
(* (file_utils.py), the Dataset object with its setters, its name check    *)
(* and distribute (dataset.py), and the files a README refers to           *)
(* (documentation.py).                                                     *)
(*                                                                         *)
(* A cell value is a record [t, v]: t is the runtime type of the Python    *)
(* object ("str", "int", "float", "Path") and v its printed form.  Columns *)
(* are object arrays: a cell holds the object assigned to it.  Row         *)
(* positions are 0-based, as in the source; TLA+ sequences are 1-based, so *)
(* position i of an array is element i + 1 of the sequence.                *)
(***************************************************************************)
EXTENDS Integers, Sequences, FiniteSets, TLC

VARIABLES
    fdArgs,         \* the arguments the caller gives FeatureDefinition(...), per column
    defs,           \* the FeatureDefinitions constructed so far, per column
    drop_on_error,  \* validate's drop_on_error argument
    n_workers,      \* validate's n_workers argument
    input0,         \* the manifest as it was when the caller passed it (history)
    frames,         \* the dataframes that exist, by reference
    tv,             \* the reference held by validate's local to_validate
    task,           \* per column: the pool task running Validator.process
    collected,      \* how many results list(exe.map(...)) has taken, in schema order
    pc,             \* where the calling program is
    exc,            \* the exception that left the program, "none" if none
    ret,            \* <<>>, or <<v>> once validate has returned v
    keyIn,          \* the two cells whose logical keys are derived
    keyOut,         \* the derived keys
    nameIn,         \* the name given to return_or_raise_approved_name
    nameOut,        \* what its calls returned or raised, in call order
    dataset,        \* the Dataset object: data, name and the settings of its setters
    lastCall,       \* the last setter call: its arguments, the setting before it, its outcome
    distArgs,       \* distribute's arguments push_uri, message and attach_associates
    tmpdir,         \* the TemporaryDirectory of distribute: "none", "exists", "removed"
    pkg,            \* the quilt3.Package under construction: logical key -> entry
    v_ds,           \* v_ds.data, the validated copy of the manifest (<<>> before)
    fp_cols,        \* distribute's local fp_cols
    metadata_reduction_map, \* distribute's local of that name
    associates,     \* distribute's local of that name
    cursor,         \* the position of the loops at dataset.py:315-415
    manifest_csv,   \* <<>>, or <<frame>> once metadata.csv was written
    pushed,         \* the calls of pkg.push made so far
    inferIn,        \* the column given to schema inference: its name and values
    inferOut,       \* <<>>, or <<d>> once the FeatureDefinition d was inferred for it
    readmeLinks,    \* the README text: what its inline links hold between "(" and ")"
    refOut          \* <<>>, or <<r>> once README.referenced_files gave the outcome r

vars == <<fdArgs, defs, drop_on_error, n_workers, input0, frames, tv, task,
          collected, pc, exc, ret, keyIn, keyOut, nameIn, nameOut, dataset,
          lastCall, distArgs, tmpdir, pkg, v_ds, fp_cols, metadata_reduction_map,
          associates, cursor, manifest_csv, pushed, inferIn, inferOut,
          readmeLinks, refOut>>

valVars == <<fdArgs, defs, drop_on_error, n_workers, input0, frames, tv, task,
             collected, pc, exc, ret>>

keyVars == <<keyIn, keyOut>>

nameVars == <<nameIn, nameOut>>

setVars == <<dataset, lastCall>>

distVars == <<distArgs, tmpdir, pkg, v_ds, fp_cols, metadata_reduction_map,
              associates, cursor, manifest_csv, pushed>>

datasetVars == <<nameVars, setVars, distVars>>

auxVars == <<inferIn, inferOut, readmeLinks, refOut>>

\* validate's own state: valVars without the caller's pc, exc and ret
valData == <<fdArgs, defs, drop_on_error, n_workers, input0, frames, tv, task,
             collected>>

-----------------------------------------------------------------------------
(* Bounds of the model *)

MaxRows == 2

-----------------------------------------------------------------------------
(* Python values and the constructors used as dtype *)

Val(t, v) == [t |-> t, v |-> v]

\* int(s) for a str s: the strings that parse as an integer literal
IntOfStr(s) ==
    CASE s = "7" -> [ok |-> TRUE, v |-> "7"]
      [] s = "1" -> [ok |-> TRUE, v |-> "1"]
      [] OTHER   -> [ok |-> FALSE, v |-> s]

\* float(s) for a str s
FloatOfStr(s) ==
    CASE s = "7"   -> [ok |-> TRUE, v |-> "7.0"]
      [] s = "1"   -> [ok |-> TRUE, v |-> "1.0"]
      [] s = "7.0" -> [ok |-> TRUE, v |-> "7.0"]
      [] s = "1.0" -> [ok |-> TRUE, v |-> "1.0"]
      [] OTHER     -> [ok |-> FALSE, v |-> s]

\* int(x) for a float x truncates
IntOfFloat(s) == IF s = "7.0" THEN "7" ELSE IF s = "1.0" THEN "1" ELSE s

\* float(n) for an int n
FloatOfInt(s) == IF s = "7" THEN "7.0" ELSE IF s = "1" THEN "1.0" ELSE s

\* pathlib drops "." components when it parses a string: str(Path(s))
PathOfStr(s) == IF s = "./a/0.tiff" THEN "a/0.tiff" ELSE s

\* list(s) for a str s: the list of its characters, printed
ListOfStr(s) ==
    CASE s = "lamin" -> "['l', 'a', 'm', 'i', 'n']"
      [] s = "mito"  -> "['m', 'i', 't', 'o']"
      [] OTHER       -> "[...]"

CastOk(t, v) == [ok |-> TRUE, exc |-> "none", val |-> Val(t, v)]
CastErr(e, val) == [ok |-> FALSE, exc |-> e, val |-> val]

CastPath_OfPrinted(val) == CastOk("Path", PathOfStr(val.v))

\* pathlib.Path(val): a str or a Path is accepted, anything else is a TypeError
CastPath(val) ==
    CASE val.t = "Path" -> CastOk("Path", val.v)
      [] val.t = "str"  -> CastOk("Path", PathOfStr(val.v))
      [] OTHER          -> CastErr("TypeError", val)

\* dtype(val): the call at validation.py:259, with the exception it raises
Cast(dtype, val) ==
    CASE dtype = "str" ->
            CastOk("str", val.v)
      [] dtype = "int" ->
            CASE val.t = "int"   -> CastOk("int", val.v)
              [] val.t = "float" -> CastOk("int", IntOfFloat(val.v))
              [] val.t = "str"   ->
                    IF IntOfStr(val.v).ok
                    THEN CastOk("int", IntOfStr(val.v).v)
                    ELSE CastErr("ValueError", val)
              [] OTHER           -> CastErr("TypeError", val)
      [] dtype = "float" ->
            CASE val.t = "float" -> CastOk("float", val.v)
              [] val.t = "int"   -> CastOk("float", FloatOfInt(val.v))
              [] val.t = "str"   ->
                    IF FloatOfStr(val.v).ok
                    THEN CastOk("float", FloatOfStr(val.v).v)
                    ELSE CastErr("ValueError", val)
              [] OTHER           -> CastErr("TypeError", val)
      [] dtype = "list" ->
            CASE val.t = "list" -> CastOk("list", val.v)
              [] val.t = "str"  -> CastOk("list", ListOfStr(val.v))
              [] OTHER          -> CastErr("TypeError", val)
      [] OTHER -> CastPath(val)

\* isinstance(val, dtype) at validation.py:269; a Path object is an instance of
\* its own class PosixPath and of Path
IsInstance(val, dtype) == val.t = dtype \/ (dtype = "PosixPath" /\ val.t = "Path")

-----------------------------------------------------------------------------
(* The filesystem the program runs against *)

Cwd  == <<"data">>
Home == <<"data">>

\* the components of a path string, and whether it is absolute
PathParts(s) ==
    CASE s = "a/0.tiff"       -> [abs |-> FALSE, parts |-> <<"a", "0.tiff">>]
      [] s = "b/0.tiff"       -> [abs |-> FALSE, parts |-> <<"b", "0.tiff">>]
      [] s = "/data/a/0.tiff" -> [abs |-> TRUE,  parts |-> <<"data", "a", "0.tiff">>]
      [] s = "b/../a/0.tiff"  -> [abs |-> FALSE, parts |-> <<"b", "..", "a", "0.tiff">>]
      [] s = "link/0.tiff"    -> [abs |-> FALSE, parts |-> <<"link", "0.tiff">>]
      [] s = "~/a/0.tiff"     -> [abs |-> FALSE, parts |-> <<"~", "a", "0.tiff">>]
      [] OTHER                -> [abs |-> FALSE, parts |-> <<s>>]

FsFiles == {<<"data", "a", "0.tiff">>, <<"data", "b", "0.tiff">>}
FsDirs  == {<<>>, <<"data">>, <<"data", "a">>, <<"data", "b">>}
\* /data/link is a symbolic link to /data/a
FsLinks == [p \in {<<"data", "link">>} |-> <<"data", "a">>]

Front(s) == SubSeq(s, 1, Len(s) - 1)

\* Path.expanduser(): a leading "~" becomes the home directory
ExpandUser(p) ==
    IF ~p.abs /\ Len(p.parts) > 0 /\ Head(p.parts) = "~"
    THEN [abs |-> TRUE, parts |-> Home \o Tail(p.parts)]
    ELSE p

RECURSIVE Walk(_, _)
\* follow the components `rest` from the absolute directory `at`
Walk(at, rest) ==
    IF rest = <<>> THEN at
    ELSE LET c == Head(rest) IN
         CASE c = "."  -> Walk(at, Tail(rest))
           [] c = ".." -> Walk(IF at = <<>> THEN at ELSE Front(at), Tail(rest))
           [] OTHER    ->
                LET nxt == Append(at, c) IN
                Walk(IF nxt \in DOMAIN FsLinks THEN FsLinks[nxt] ELSE nxt, Tail(rest))

\* Path.resolve(): absolute, without "..", symbolic links followed
Resolve(p) == Walk(IF p.abs THEN <<>> ELSE Cwd, p.parts)

\* Path(val).exists() for a Path whose printed form is s
Exists(s) == Resolve(PathParts(s)) \in (FsFiles \cup FsDirs)

-----------------------------------------------------------------------------
(* FeatureDefinition (validation.py:24-75) *)

\* the callables the model knows; any other entry of validation_functions is a
\* non-callable object (a string)
Predicates == {"nonempty", "is_hello", "is_seven", "is_tiff"}

Callable(f) == f \in Predicates

\* f(val) for a callable f
ApplyPred(f, val) ==
    CASE f = "is_hello" -> val.v = "hello"
      [] f = "is_seven" -> val.v \in {"7", "7.0"}
      [] f = "is_tiff"  -> val.v \in {"a/0.tiff", "b/0.tiff", "/data/a/0.tiff"}
      [] OTHER          -> TRUE

\* validation.py:48-51: None becomes the empty tuple, a list becomes a tuple
AsTuple(vf) ==
    CASE vf.kind = "none" -> [kind |-> "tuple", items |-> <<>>]
      [] vf.kind = "list" -> [kind |-> "tuple", items |-> vf.items]
      [] OTHER            -> vf

\* validation.py:54
IsTuple(vf) == vf.kind = "tuple"

AllCallable_Unchecked(items) == TRUE

\* validation.py:60
AllCallable(items) == \A k \in 1..Len(items) : Callable(items[k])

FdCastValues_AsPassed(dtype, cast_values) == cast_values

\* validation.py:68 and 73-75: a Path dtype always casts
FdCastValues(dtype, cast_values) == IF dtype = "Path" THEN TRUE ELSE cast_values

\* FeatureDefinition.__init__: the object built, or the exception raised
FeatureDefinitionInit(a) ==
    LET vf == AsTuple(a.validation_functions) IN
    IF ~IsTuple(vf) THEN [ok |-> FALSE, exc |-> "TypeError"]
    ELSE IF ~AllCallable(vf.items) THEN [ok |-> FALSE, exc |-> "TypeError"]
    ELSE [ok |-> TRUE, exc |-> "none",
          fd |-> [dtype |-> a.dtype,
                  validation_functions |-> vf.items,
                  cast_values |-> FdCastValues(a.dtype, a.cast_values)]]

-----------------------------------------------------------------------------
(* Validator.process, one row (validation.py:243-298) *)

ShouldCast_Always(definition) == TRUE

\* validation.py:249
ShouldCast(definition) == definition.cast_values

PathMissing_Never(definition, val) == FALSE

\* validation.py:280-281
PathMissing(definition, val) == definition.dtype = "Path" /\ ~Exists(val.v)

Chk(c, k) == [c |-> c, k |-> k]

PredLoop_RunAll(fs, val, k, ran) ==
    LET failing == {j \in k..(Len(fs) - 1) : ~ApplyPred(fs[j + 1], val)}
    IN [failed |-> IF failing = {} THEN -1
                   ELSE CHOOSE j \in failing : \A h \in failing : h <= j,
        ran |-> ran \o [j \in 1..(Len(fs) - k) |-> Chk("pred", k + j - 1)]]

RECURSIVE PredLoop(_, _, _, _)
\* validation.py:289-295: the predicates from position k on (0-based), in order;
\* the index of the first that fails (-1 if none) and the checks that ran
PredLoop(fs, val, k, ran) ==
    IF k >= Len(fs) THEN [failed |-> -1, ran |-> ran]
    ELSE IF ~ApplyPred(fs[k + 1], val)
         THEN [failed |-> k, ran |-> Append(ran, Chk("pred", k))]
         ELSE PredLoop(fs, val, k + 1, Append(ran, Chk("pred", k)))

RowResult(fail, func, val, wrote, ran) ==
    [fail |-> fail, func |-> func, val |-> val, wrote |-> wrote, ran |-> ran]

\* validation.py:268-295: the checks that follow the cast
CheckAfterCast(definition, val, wrote, ran) ==
    IF ~IsInstance(val, definition.dtype)
    THEN RowResult("type", -1, val, wrote, Append(ran, Chk("type", -1)))
    ELSE LET ran2 == Append(ran, Chk("type", -1)) IN
         IF PathMissing(definition, val)
         THEN RowResult("path", -1, val, wrote, Append(ran2, Chk("path", -1)))
         ELSE LET ran3 == IF definition.dtype = "Path"
                          THEN Append(ran2, Chk("path", -1)) ELSE ran2
                  p == PredLoop(definition.validation_functions, val, 0, ran3)
              IN IF p.failed >= 0
                 THEN RowResult("pred", p.failed, val, wrote, p.ran)
                 ELSE RowResult("none", -1, val, wrote, p.ran)

\* the body of the loop for one value: which check failed ("none" if the row
\* passed), the value after the cast, whether values[i] was assigned, and the
\* checks that ran in order
CheckRow(definition, val) ==
    IF ShouldCast(definition)
    THEN LET r == Cast(definition.dtype, val) IN
         IF r.ok
         THEN CheckAfterCast(definition, r.val, TRUE, <<Chk("cast", -1)>>)
         ELSE RowResult("cast", -1, val, FALSE, <<Chk("cast", -1)>>)
    ELSE CheckAfterCast(definition, val, FALSE, <<>>)

RaisedFor_AllValueError(fail) == "ValueError"

\* the exception raised in place of PlannedDelayedDropError when drop_on_error
\* is false (validation.py:266, 277, 286, 295)
RaisedFor(fail) ==
    CASE fail = "cast" -> "ValueError"
      [] fail = "type" -> "TypeError"
      [] fail = "path" -> "FileNotFoundError"
      [] OTHER         -> "ValueError"

-----------------------------------------------------------------------------
(* Dataframes *)

Columns == <<"feat", "path">>
ColumnSet == {Columns[k] : k \in 1..Len(Columns)}

ColPos(c) == CHOOSE k \in 1..Len(Columns) : Columns[k] = c

NRows(frame) == Len(frame.index)

RECURSIVE KeepRows(_, _, _)
\* the elements of seq at the positions (1-based, from k on) that are in keep
KeepRows(seq, keep, k) ==
    IF k > Len(seq) THEN <<>>
    ELSE IF k \in keep THEN <<seq[k]>> \o KeepRows(seq, keep, k + 1)
         ELSE KeepRows(seq, keep, k + 1)

\* DataFrame.drop(labels): rows are removed by index label; a label that is not
\* in the index is a KeyError
FrameDrop(frame, labels) ==
    LET have == {frame.index[k] : k \in 1..NRows(frame)}
        keep == {k \in 1..NRows(frame) : frame.index[k] \notin labels}
    IN IF labels \subseteq have
       THEN [ok |-> TRUE,
             frame |-> [index |-> KeepRows(frame.index, keep, 1),
                        cols |-> [c \in ColumnSet |-> KeepRows(frame.cols[c], keep, 1)]]]
       ELSE [ok |-> FALSE, frame |-> frame]

CopyOf_Alias(ref) == ref

\* DataFrame.copy() at validation.py:436: a new frame, here named "wc"
CopyOf(ref) == "wc"

-----------------------------------------------------------------------------
(* The inputs the model draws from *)

Args(dtype, kind, items, cast) ==
    [dtype |-> dtype, validation_functions |-> [kind |-> kind, items |-> items],
     cast_values |-> cast]

\* the schemas a caller builds: for each column the arguments of its
\* FeatureDefinition
SchemaPool ==
    { [feat |-> Args("int", "none", <<>>, FALSE),
       path |-> Args("Path", "none", <<>>, FALSE)],
      [feat |-> Args("int", "list", <<>>, TRUE),
       path |-> Args("Path", "tuple", <<"is_tiff">>, TRUE)],
      [feat |-> Args("str", "list", <<"nonempty", "is_hello">>, FALSE),
       path |-> Args("str", "none", <<>>, FALSE)],
      [feat |-> Args("str", "none", <<>>, TRUE),
       path |-> Args("str", "tuple", <<>>, TRUE)],
      [feat |-> Args("float", "tuple", <<"is_seven">>, TRUE),
       path |-> Args("Path", "none", <<>>, FALSE)],
      [feat |-> Args("Path", "none", <<>>, FALSE),
       path |-> Args("float", "none", <<>>, FALSE)],
      [feat |-> Args("str", "set", <<"is_hello">>, FALSE),
       path |-> Args("Path", "none", <<>>, FALSE)],
      [feat |-> Args("str", "none", <<>>, FALSE),
       path |-> Args("Path", "tuple", <<"is_tiff", "not callable">>, FALSE)],
      [feat |-> Args("str", "tuple", <<"is_seven", "is_hello">>, FALSE),
       path |-> Args("str", "none", <<>>, FALSE)] }

\* the rows a manifest is made of
RowPool ==
    { [feat |-> Val("str", "hello"), path |-> Val("str", "a/0.tiff")],
      [feat |-> Val("str", "7"),     path |-> Val("str", "x.png")],
      [feat |-> Val("int", "7"),     path |-> Val("float", "1.0")],
      [feat |-> Val("str", "7"),     path |-> Val("Path", "b/0.tiff")],
      [feat |-> Val("str", "hello"), path |-> Val("str", "x.png")],
      [feat |-> Val("int", "1"),     path |-> Val("str", "./a/0.tiff")] }

RowSeqs == UNION {[1..n -> RowPool] : n \in 0..MaxRows}

\* the row labels of a frame of n rows: pandas' default 0..n-1, or 1..n, what
\* is left after the first row of a longer frame was filtered out
IndexKinds == {"range", "shifted"}
IndexOf(kind, n) == [k \in 1..n |-> IF kind = "range" THEN k - 1 ELSE k]

FrameOf(rows, kind) ==
    [index |-> IndexOf(kind, Len(rows)),
     cols  |-> [c \in ColumnSet |-> [k \in 1..Len(rows) |-> rows[k][c]]]]

WorkerCounts == {1, 2}

-----------------------------------------------------------------------------
(* State *)

IdleTask ==
    [status |-> "none", i |-> 0, errored |-> {}, log |-> <<>>, exc |-> "none",
     vref |-> "none"]

KeyIdle == keyIn = <<>> /\ keyOut = <<>>

NameIdle == nameIn = <<>> /\ nameOut = <<>>

SettersIdle == dataset = <<>> /\ lastCall = <<>>

DistributeIdle ==
    /\ distArgs = <<>>
    /\ tmpdir = "none"
    /\ pkg = <<>>
    /\ v_ds = <<>>
    /\ fp_cols = <<>>
    /\ metadata_reduction_map = <<>>
    /\ associates = <<>>
    /\ cursor = <<>>
    /\ manifest_csv = <<>>
    /\ pushed = <<>>

AuxIdle == inferIn = <<>> /\ inferOut = <<>> /\ readmeLinks = <<>> /\ refOut = <<>>

Init ==
    /\ fdArgs \in SchemaPool
    /\ defs = <<>>
    /\ drop_on_error \in BOOLEAN
    /\ n_workers \in WorkerCounts
    /\ \E rows \in RowSeqs, kind \in IndexKinds :
          /\ input0 = FrameOf(rows, kind)
          /\ frames = [r \in {"in"} |-> FrameOf(rows, kind)]
    /\ tv = "none"
    /\ task = [c \in ColumnSet |-> IdleTask]
    /\ collected = 0
    /\ pc = "construct"
    /\ exc = "none"
    /\ ret = <<>>
    /\ KeyIdle
    /\ NameIdle
    /\ SettersIdle
    /\ DistributeIdle
    /\ AuxIdle

-----------------------------------------------------------------------------
(* The caller builds the schema, one FeatureDefinition per column *)

DefOf(c) == defs[ColPos(c)]

ConstructDefinition ==
    /\ pc = "construct"
    /\ Len(defs) < Len(Columns)
    /\ LET c == Columns[Len(defs) + 1]
           r == FeatureDefinitionInit(fdArgs[c])
       IN IF r.ok
          THEN /\ defs' = Append(defs, r.fd)
               /\ UNCHANGED <<pc, exc>>
          ELSE /\ pc' = "raised"
               /\ exc' = r.exc
               /\ UNCHANGED defs
    /\ UNCHANGED <<fdArgs, drop_on_error, n_workers, input0, frames, tv, task,
                   collected, ret, keyVars, datasetVars,
                   auxVars>>

-----------------------------------------------------------------------------
(* validate (validation.py:408-480) *)

\* validation.py:436-454: copy the data, bind one Validator per schema column to
\* the copy's column, and submit one task per Validator to the pool
ValidateCall ==
    /\ pc = "construct"
    /\ Len(defs) = Len(Columns)
    /\ LET r == CopyOf("in") IN
          /\ frames' = [k \in DOMAIN frames \cup {r} |-> frames["in"]]
          /\ tv' = r
          /\ task' = [c \in ColumnSet |-> [IdleTask EXCEPT !.status = "pending", !.vref = r]]
    /\ collected' = 0
    /\ pc' = "pool"
    /\ UNCHANGED <<fdArgs, defs, drop_on_error, n_workers, input0, exc, ret, keyVars, datasetVars,
                   auxVars>>

Running == {c \in ColumnSet : task[c].status = "running"}
Pending == {c \in ColumnSet : task[c].status = "pending"}

\* a free worker thread takes the oldest task of the queue
StartTask(c) ==
    /\ pc \in {"pool", "shutdown"}
    /\ task[c].status = "pending"
    /\ \A d \in Pending : ColPos(c) <= ColPos(d)
    /\ Cardinality(Running) < n_workers
    /\ task' = [task EXCEPT ![c].status = "running"]
    /\ UNCHANGED <<fdArgs, defs, drop_on_error, n_workers, input0, frames, tv,
                   collected, pc, exc, ret, keyVars, datasetVars,
                   auxVars>>

\* Validator.process, one pass of the loop at validation.py:242-302
ProcessRow(c) ==
    /\ task[c].status = "running"
    /\ task[c].i < NRows(frames[task[c].vref])
    /\ LET t == task[c]
           i == t.i
           r == CheckRow(DefOf(c), frames[t.vref].cols[c][i + 1])
           entry == [index |-> i, ran |-> r.ran, wrote |-> r.wrote]
       IN /\ frames' = IF r.wrote
                       THEN [frames EXCEPT ![t.vref].cols[c][i + 1] = r.val]
                       ELSE frames
          /\ IF r.fail = "none"
             THEN task' = [task EXCEPT ![c].i = i + 1, ![c].log = Append(t.log, entry)]
             ELSE IF drop_on_error
                  THEN task' = [task EXCEPT
                                  ![c].i = i + 1,
                                  ![c].log = Append(t.log, entry),
                                  ![c].errored = t.errored \cup
                                      {[index |-> i, error |-> r.fail, func |-> r.func]}]
                  ELSE task' = [task EXCEPT
                                  ![c].status = "raised",
                                  ![c].log = Append(t.log, entry),
                                  ![c].exc = RaisedFor(r.fail)]
    /\ UNCHANGED <<fdArgs, defs, drop_on_error, n_workers, input0, tv, collected,
                   pc, exc, ret, keyVars, datasetVars,
                   auxVars>>

\* validation.py:304-313: the loop is over, the ValidatedFeature is returned
ProcessReturn(c) ==
    /\ task[c].status = "running"
    /\ task[c].i = NRows(frames[task[c].vref])
    /\ task' = [task EXCEPT ![c].status = "done"]
    /\ UNCHANGED <<fdArgs, defs, drop_on_error, n_workers, input0, frames, tv,
                   collected, pc, exc, ret, keyVars, datasetVars,
                   auxVars>>

\* results taken as the tasks complete instead of in schema order
CollectResult_AsCompleted ==
    /\ pc = "pool"
    /\ collected < Len(Columns)
    /\ \/ /\ task[Columns[collected + 1]].status = "done"
          /\ collected' = collected + 1
          /\ UNCHANGED <<task, pc, exc>>
       \/ \E c \in ColumnSet :
             /\ task[c].status = "raised"
             /\ task' = [d \in ColumnSet |->
                           IF task[d].status = "pending"
                           THEN [task[d] EXCEPT !.status = "cancelled"]
                           ELSE task[d]]
             /\ exc' = task[c].exc
             /\ pc' = "shutdown"
             /\ UNCHANGED collected
    /\ UNCHANGED <<fdArgs, defs, drop_on_error, n_workers, input0, frames, tv, ret,
                   keyVars, datasetVars,
                   auxVars>>

\* list(exe.map(...)) takes the results in schema order; a task's exception is
\* raised where its result is taken, and the results not yet taken are cancelled
\* (a task that has not started never runs)
CollectResult ==
    /\ pc = "pool"
    /\ collected < Len(Columns)
    /\ LET c == Columns[collected + 1] IN
          \/ /\ task[c].status = "done"
             /\ collected' = collected + 1
             /\ UNCHANGED <<task, pc, exc>>
          \/ /\ task[c].status = "raised"
             /\ task' = [d \in ColumnSet |->
                           IF task[d].status = "pending"
                           THEN [task[d] EXCEPT !.status = "cancelled"]
                           ELSE task[d]]
             /\ exc' = task[c].exc
             /\ pc' = "shutdown"
             /\ UNCHANGED collected
    /\ UNCHANGED <<fdArgs, defs, drop_on_error, n_workers, input0, frames, tv, ret,
                   keyVars, datasetVars,
                   auxVars>>

\* leaving `with ThreadPoolExecutor(...)` on an exception: the pool is joined,
\* then the exception reaches validate's caller
PoolShutdown ==
    /\ pc = "shutdown"
    /\ Running = {}
    /\ Pending = {}
    /\ pc' = "raised"
    /\ UNCHANGED <<fdArgs, defs, drop_on_error, n_workers, input0, frames, tv, task,
                   collected, exc, ret, keyVars, datasetVars,
                   auxVars>>

ValidatedFeature(c) ==
    [name |-> c, dtype |-> DefOf(c).dtype,
     validation_functions |-> DefOf(c).validation_functions,
     errored_results |-> task[c].errored]

MasterSet_FirstOnly(features) ==
    {er.index : er \in features[Columns[1]].errored_results}

\* validation.py:473-475: the union of the errored indices of every feature
MasterSet(features) ==
    UNION {{er.index : er \in features[c].errored_results} : c \in ColumnSet}

\* validation.py:403-405 and 480: ValidatedDataset(data, schema)
ValidatedDataset(data, features) == [data |-> data, schema |-> features]

\* validation.py:456-480: every result is in; drop the errored rows and return
ValidateReturn ==
    /\ pc = "pool"
    /\ collected = Len(Columns)
    /\ LET features == [c \in ColumnSet |-> ValidatedFeature(c)] IN
       IF drop_on_error
       THEN LET d == FrameDrop(frames[tv], MasterSet(features)) IN
            IF d.ok
            THEN /\ frames' = [k \in DOMAIN frames \cup {"out"} |->
                                 IF k = "out" THEN d.frame ELSE frames[k]]
                 /\ tv' = "out"
                 /\ ret' = <<ValidatedDataset("out", features)>>
                 /\ pc' = "returned"
                 /\ UNCHANGED exc
            ELSE /\ pc' = "raised"
                 /\ exc' = "KeyError"
                 /\ UNCHANGED <<frames, tv, ret>>
       ELSE /\ ret' = <<ValidatedDataset(tv, features)>>
            /\ pc' = "returned"
            /\ UNCHANGED <<frames, tv, exc>>
    /\ UNCHANGED <<fdArgs, defs, drop_on_error, n_workers, input0, task, collected,
                   keyVars, datasetVars,
                   auxVars>>

Next ==
    \/ ConstructDefinition
    \/ ValidateCall
    \/ \E c \in ColumnSet : StartTask(c)
    \/ \E c \in ColumnSet : ProcessRow(c)
    \/ \E c \in ColumnSet : ProcessReturn(c)
    \/ CollectResult
    \/ PoolShutdown
    \/ ValidateReturn

Spec == Init /\ [][Next]_vars

-----------------------------------------------------------------------------
(* What the claims speak of *)

ValidateEntered == tv # "none"
Returned == pc = "returned"
Raised == pc = "raised"

\* the check a value fails first against a definition, "none" if it passes all:
\* cast (if cast_values), type, path existence (if Path), predicates
Violation(definition, val) ==
    LET castFails == definition.cast_values /\ ~Cast(definition.dtype, val).ok
        v2 == IF definition.cast_values /\ ~castFails
              THEN Cast(definition.dtype, val).val ELSE val
        fs == definition.validation_functions
    IN IF castFails THEN "cast"
       ELSE IF v2.t # definition.dtype THEN "type"
       ELSE IF definition.dtype = "Path" /\ ~Exists(v2.v) THEN "path"
       ELSE IF \E k \in 1..Len(fs) : ~ApplyPred(fs[k], v2) THEN "pred"
       ELSE "none"

\* the positions (0-based) of the rows of column c of the input that violate
\* the column's definition
ViolatingRows(c) ==
    {j \in 0..(NRows(input0) - 1) : Violation(DefOf(c), input0.cols[c][j + 1]) # "none"}

\* the positions (0-based) for which column c's validator recorded an error
ErroredRows(c) == {er.index : er \in task[c].errored}

AllErroredRows == UNION {ErroredRows(c) : c \in ColumnSet}

\* the working copy that the validators were bound to
WorkingCopy == frames[task[Columns[1]].vref]

\* C1: validate(..., drop_on_error=True) never raises once it is entered, and
\* the data it returns is the working copy without exactly the rows at which
\* some column's validator recorded an error.
C1_DropReturnsWithoutErroredRows ==
    (ValidateEntered /\ drop_on_error) =>
        /\ ~Raised
        /\ Returned =>
              LET keep == {k \in 1..NRows(WorkingCopy) : (k - 1) \notin AllErroredRows}
                  out == frames[ret[1].data]
              IN /\ out.index = KeepRows(WorkingCopy.index, keep, 1)
                 /\ \A c \in ColumnSet :
                       out.cols[c] = KeepRows(WorkingCopy.cols[c], keep, 1)

\* C2: the manifest the caller passed holds the same rows, labels and cells at
\* every moment of the call and after it, however the call ends.
C2_InputNeverMutated == frames["in"] = input0

\* C2 witness: validate has returned in drop mode after casts were written and
\* rows were dropped
C2_Witness ==
    /\ Returned
    /\ drop_on_error
    /\ NRows(frames[ret[1].data]) < NRows(input0)
    /\ \E c \in ColumnSet : \E k \in 1..Len(task[c].log) : task[c].log[k].wrote
    /\ WorkingCopy # input0

\* the exception kind the taxonomy gives each failed check
C3_Kind(fail) ==
    IF fail = "type" THEN "TypeError"
    ELSE IF fail = "path" THEN "FileNotFoundError"
    ELSE "ValueError"

\* C3: in fail-fast mode process raises at the lowest violating row, with the
\* kind of the first check that row fails; the rows after it are neither cast
\* nor checked; and process returns only if no row violates.
C3_FailFastRaisesAtFirstViolation ==
    \A c \in ColumnSet :
        /\ task[c].status = "raised" =>
              LET i == task[c].i IN
              /\ ~drop_on_error
              /\ i \in ViolatingRows(c)
              /\ \A j \in 0..(i - 1) : j \notin ViolatingRows(c)
              /\ task[c].exc = C3_Kind(Violation(DefOf(c), input0.cols[c][i + 1]))
              /\ {task[c].log[k].index : k \in 1..Len(task[c].log)} = 0..i
              /\ \A j \in (i + 1)..(NRows(input0) - 1) :
                    WorkingCopy.cols[c][j + 1] = input0.cols[c][j + 1]
        /\ (task[c].status = "done" /\ ~drop_on_error) => ViolatingRows(c) = {}

\* C3 witness: a path column raised FileNotFoundError at its second row, the
\* first row having been cast, with a row left after it
C3_Witness ==
    \E c \in ColumnSet :
        /\ task[c].status = "raised"
        /\ task[c].exc = "FileNotFoundError"
        /\ task[c].i = 1
        /\ task[c].log[1].wrote


\* column c of the input holds only floats (at least one) and is validated
\* fail-fast against a Path definition, and its process call has ended
C4_FloatsAgainstPath(c) ==
    /\ ValidateEntered
    /\ ~drop_on_error
    /\ DefOf(c).dtype = "Path"
    /\ NRows(input0) > 0
    /\ \A k \in 1..NRows(input0) : input0.cols[c][k].t = "float"
    /\ task[c].status \in {"done", "raised"}

\* C4 as stated: floats validated fail-fast against a Path definition raise a
\* NotFound-kind or type-kind error.
C4_FloatsRaiseNotFoundOrType ==
    \A c \in ColumnSet :
        C4_FloatsAgainstPath(c) =>
            /\ task[c].status = "raised"
            /\ task[c].exc \in {"FileNotFoundError", "TypeError"}

\* C4 amended: floats validated fail-fast against a Path definition raise a
\* ValueError at row 0 (the cast of the float to a Path fails), nothing is
\* written and no check after the cast runs.
C4_FloatsRaiseValueError ==
    \A c \in ColumnSet :
        C4_FloatsAgainstPath(c) =>
            /\ task[c].status = "raised"
            /\ task[c].exc = "ValueError"
            /\ task[c].i = 0
            /\ task[c].log = <<[index |-> 0, ran |-> <<Chk("cast", -1)>>, wrote |-> FALSE]>>

\* C4 witness: a column of two floats was processed against a Path definition
C4_Witness ==
    \E c \in ColumnSet : C4_FloatsAgainstPath(c) /\ NRows(input0) = 2

\* C5 as stated: what validate returns in drop mode has a component that is
\* the number of rows dropped.
C5_ReturnCarriesDropCount ==
    (Returned /\ drop_on_error) =>
        /\ "n_dropped" \in DOMAIN ret[1]
        /\ ret[1].n_dropped = NRows(input0) - NRows(frames[ret[1].data])

\* C5 amended: validate returns the data and the schema and nothing else; the
\* schema holds, per column, the errors its validator recorded, and the number
\* of rows dropped is the number of distinct indices among them.
C5_DropCountOnlyDerivable ==
    (Returned /\ drop_on_error) =>
        /\ DOMAIN ret[1] = {"data", "schema"}
        /\ \A c \in ColumnSet : ret[1].schema[c].errored_results = task[c].errored
        /\ NRows(input0) - NRows(frames[ret[1].data]) =
              Cardinality(UNION {{er.index : er \in ret[1].schema[c].errored_results} :
                                   c \in ColumnSet})

\* C5 witness: a drop pass returned with one row dropped for errors in both
\* columns and one row kept
C5_Witness ==
    /\ Returned
    /\ drop_on_error
    /\ NRows(frames[ret[1].data]) = 1
    /\ NRows(input0) = 2
    /\ \A c \in ColumnSet : ret[1].schema[c].errored_results # {}

\* C6: in drop mode process never raises and a running process can always take
\* its next step; once it has returned, the rows in errored_results are exactly
\* the rows that fail a check; in fail-fast mode a process call that returned
\* recorded no error.
C6_ErroredResultsAreTheViolatingRows ==
    \A c \in ColumnSet :
        /\ drop_on_error => task[c].status # "raised"
        /\ (drop_on_error /\ task[c].status = "running") =>
              ENABLED (ProcessRow(c) \/ ProcessReturn(c))
        /\ (task[c].status = "done" /\ drop_on_error) => ErroredRows(c) = ViolatingRows(c)
        /\ (task[c].status = "done" /\ ~drop_on_error) => task[c].errored = {}

\* C6 witness: a Path column processed in drop mode: the row whose file is
\* missing is recorded, the row whose file exists is not
C6_Witness ==
    \E c \in ColumnSet :
        /\ task[c].status = "done"
        /\ drop_on_error
        /\ DefOf(c).dtype = "Path"
        /\ \E er \in task[c].errored : er.error = "path"
        /\ ErroredRows(c) # 0..(NRows(input0) - 1)

\* C7: a constructed FeatureDefinition has cast_values true if its dtype is
\* Path, and the value the caller passed otherwise.
C7_PathForcesCast ==
    \A k \in 1..Len(defs) :
        LET a == fdArgs[Columns[k]] IN
        /\ defs[k].dtype = a.dtype
        /\ a.dtype = "Path" => defs[k].cast_values = TRUE
        /\ a.dtype # "Path" => defs[k].cast_values = a.cast_values

\* C7 witness: a Path definition was constructed with cast_values=False passed,
\* next to a definition of another dtype
C7_Witness ==
    /\ Len(defs) = Len(Columns)
    /\ \E k \in 1..Len(defs) :
          fdArgs[Columns[k]].dtype = "Path" /\ ~fdArgs[Columns[k]].cast_values
    /\ \E k \in 1..Len(defs) : fdArgs[Columns[k]].dtype # "Path"

\* the validation_functions arguments the constructor must refuse
C8_BadFunctions(a) ==
    \/ a.validation_functions.kind \notin {"none", "list", "tuple"}
    \/ \E k \in 1..Len(a.validation_functions.items) :
          a.validation_functions.items[k] \notin Predicates

\* C8: a FeatureDefinition is constructed only from acceptable
\* validation_functions and then holds only callables; otherwise construction
\* raises TypeError, and validation is never entered.
C8_BadFunctionsRaiseAtConstruction ==
    /\ \A k \in 1..Len(defs) :
          /\ ~C8_BadFunctions(fdArgs[Columns[k]])
          /\ \A j \in 1..Len(defs[k].validation_functions) :
                defs[k].validation_functions[j] \in Predicates
    /\ (Raised /\ ~ValidateEntered) =>
          /\ exc = "TypeError"
          /\ C8_BadFunctions(fdArgs[Columns[Len(defs) + 1]])
    /\ (\E c \in ColumnSet : C8_BadFunctions(fdArgs[c])) =>
          /\ ~ValidateEntered
          /\ \A c \in ColumnSet : task[c] = IdleTask
          /\ pc \in {"construct", "raised"}
    /\ (pc = "construct" /\ Len(defs) < Len(Columns)
          /\ C8_BadFunctions(fdArgs[Columns[Len(defs) + 1]])) =>
          ~FeatureDefinitionInit(fdArgs[Columns[Len(defs) + 1]]).ok

\* C8 witness: the second definition's tuple held a non-callable entry and its
\* construction raised, after the first was constructed
C8_Witness ==
    /\ Raised
    /\ exc = "TypeError"
    /\ Len(defs) = 1
    /\ fdArgs[Columns[2]].validation_functions.kind = "tuple"

\* C9: a column whose definition has cast_values false holds, in the working
\* copy, the cells of the input at every moment, and no row of it is written.
C9_NoCastNoWrite ==
    ValidateEntered =>
        \A c \in ColumnSet :
            ~DefOf(c).cast_values =>
                /\ WorkingCopy.cols[c] = input0.cols[c]
                /\ \A k \in 1..Len(task[c].log) : ~task[c].log[k].wrote

\* C9 witness: a column with cast_values false was processed to the end in
\* drop mode with an errored row and a passing row
C9_Witness ==
    \E c \in ColumnSet :
        /\ ValidateEntered
        /\ ~DefOf(c).cast_values
        /\ drop_on_error
        /\ task[c].status = "done"
        /\ ErroredRows(c) # {}
        /\ ErroredRows(c) # 0..(NRows(input0) - 1)


-----------------------------------------------------------------------------
(* Logical keys (file_utils.py:9-17, dataset.py:325-338) *)

Last(s) == s[Len(s)]

\* a number for each path component, below 16
ComponentCode(c) ==
    CASE c = "data"   -> 1
      [] c = "a"      -> 2
      [] c = "b"      -> 3
      [] c = "0.tiff" -> 4
      [] c = "x.png"  -> 5
      [] OTHER        -> 6

RECURSIVE Sha256Hex(_)
\* hashlib.sha256(str(pk).encode("utf-8")).hexdigest(), for the absolute path
\* whose components are pk: a digest of the whole string, taken here to differ
\* whenever the strings differ
Sha256Hex(pk) ==
    IF pk = <<>> THEN 0 ELSE Sha256Hex(Front(pk)) * 16 + ComponentCode(Last(pk))

\* Path(x) for a str or Path x: its components
AsPath(val) == PathParts(PathOfStr(val.v))

CreateUniqueLogicalKey_NameOnly(p) ==
    LET pk == Resolve(ExpandUser(p)) IN
    IF pk \in (FsFiles \cup FsDirs)
    THEN [ok |-> TRUE, exc |-> "none", hash |-> 0,
          name |-> IF pk = <<>> THEN "" ELSE Last(pk)]
    ELSE [ok |-> FALSE, exc |-> "FileNotFoundError", hash |-> 0, name |-> ""]

\* create_unique_logical_key(physical_key): "{short_hash}_{pk.name}", or the
\* FileNotFoundError of resolve(strict=True)
CreateUniqueLogicalKey(p) ==
    LET pk == Resolve(ExpandUser(p)) IN
    IF pk \in (FsFiles \cup FsDirs)
    THEN [ok |-> TRUE, exc |-> "none", hash |-> Sha256Hex(pk),
          name |-> IF pk = <<>> THEN "" ELSE Last(pk)]
    ELSE [ok |-> FALSE, exc |-> "FileNotFoundError", hash |-> 0, name |-> ""]

LogicalKey_OfSpelling(col_label, val) ==
    LET spelled == ExpandUser(AsPath(val)).parts
        u == CreateUniqueLogicalKey(AsPath(val))
    IN [ok |-> u.ok, exc |-> u.exc, label |-> col_label,
        hash |-> Sha256Hex(spelled), name |-> u.name]

\* dataset.py:325-338: the logical key "{col_label}/{unique_file_name}" of a cell
LogicalKey(col_label, val) ==
    LET physical_key == [abs |-> TRUE, parts |-> Resolve(ExpandUser(AsPath(val)))]
        u == CreateUniqueLogicalKey(physical_key)
    IN [ok |-> u.ok, exc |-> u.exc, label |-> col_label, hash |-> u.hash, name |-> u.name]

\* the path cells the keys are derived for: strings and Path objects
KeyStrings ==
    {"a/0.tiff", "./a/0.tiff", "/data/a/0.tiff", "b/../a/0.tiff", "link/0.tiff",
     "~/a/0.tiff", "b/0.tiff", "x.png", "a"}
KeyValues ==
    {Val("str", v) : v \in KeyStrings} \cup {Val("Path", PathOfStr(v)) : v \in KeyStrings}
KeyLabels == {"path", "FOV"}
KeyCells == [val : KeyValues, label : KeyLabels]

NoKey == [done |-> FALSE]

ValidationIdle ==
    /\ fdArgs = <<>>
    /\ defs = <<>>
    /\ drop_on_error = FALSE
    /\ n_workers = 1
    /\ input0 = FrameOf(<<>>, "range")
    /\ frames = [r \in {"in"} |-> FrameOf(<<>>, "range")]
    /\ tv = "none"
    /\ task = [c \in ColumnSet |-> IdleTask]
    /\ collected = 0
    /\ exc = "none"
    /\ ret = <<>>

InitKey ==
    /\ ValidationIdle
    /\ NameIdle
    /\ SettersIdle
    /\ DistributeIdle
    /\ AuxIdle
    /\ pc = "key"
    /\ keyIn \in [1..2 -> KeyCells]
    /\ keyOut = [k \in 1..2 |-> [direct |-> NoKey, logical |-> NoKey]]

\* a caller (the test) calls create_unique_logical_key on the cell's value
CallCreateUniqueLogicalKey(k) ==
    /\ pc = "key"
    /\ keyOut[k].direct = NoKey
    /\ keyOut' = [keyOut EXCEPT ![k].direct =
                     [done |-> TRUE, r |-> CreateUniqueLogicalKey(AsPath(keyIn[k].val))]]
    /\ UNCHANGED <<valVars, keyIn, datasetVars, auxVars>>

\* distribute derives the logical key of the cell under its column label
DeriveLogicalKey(k) ==
    /\ pc = "key"
    /\ keyOut[k].logical = NoKey
    /\ keyOut' = [keyOut EXCEPT ![k].logical =
                     [done |-> TRUE, r |-> LogicalKey(keyIn[k].label, keyIn[k].val)]]
    /\ UNCHANGED <<valVars, keyIn, datasetVars, auxVars>>

NextKey ==
    \/ \E k \in 1..2 : CallCreateUniqueLogicalKey(k)
    \/ \E k \in 1..2 : DeriveLogicalKey(k)

SpecKey == InitKey /\ [][NextKey]_vars

\* the resolved absolute path of a cell
C10_Resolved(cell) == Resolve(ExpandUser(PathParts(PathOfStr(cell.val.v))))

C10_BothDirect == keyOut[1].direct.done /\ keyOut[2].direct.done
C10_BothLogical == keyOut[1].logical.done /\ keyOut[2].logical.done

-----------------------------------------------------------------------------
(* The order of the checks of one row (validation.py:242-298) *)

\* the checks a value that passes goes through, in the order of the source:
\* the cast at 249-266, isinstance at 269-277, exists at 280-286, the
\* predicates at 289-295
C20_AllChecks(definition) ==
    (IF definition.cast_values THEN <<Chk("cast", -1)>> ELSE <<>>)
    \o <<Chk("type", -1)>>
    \o (IF definition.dtype = "Path" THEN <<Chk("path", -1)>> ELSE <<>>)
    \o [k \in 1..Len(definition.validation_functions) |-> Chk("pred", k - 1)]

C20_IsPrefix(s, t) == Len(s) <= Len(t) /\ SubSeq(t, 1, Len(s)) = s

\* the check named by a recorded error is the last one that ran; a cast error
\* means no type check ran; a predicate error names a predicate that fails on
\* the (cast) value while every predicate before it passes
C20_ErrorNamesFirstFailure(definition, val, ran, error, func) ==
    LET fs == definition.validation_functions IN
    /\ ran[Len(ran)] = Chk(error, func)
    /\ error = "cast" => \A k \in 1..Len(ran) : ran[k].c # "type"
    /\ error = "pred" =>
          /\ func \in 0..(Len(fs) - 1)
          /\ ~ApplyPred(fs[func + 1], val)
          /\ \A j \in 0..(func - 1) : ApplyPred(fs[j + 1], val)

\* C20: for every row a validator has processed, the checks that ran are a
\* prefix of cast (if enabled), type, path (if Path), predicates in declared
\* order; the row has at most one recorded error; a row with an error (or the
\* row that raised) stopped at the failing check, a row without ran them all.
C20_ChecksInOrderStopAtFirstFailure ==
    \A c \in ColumnSet :
        \A k \in 1..Len(task[c].log) :
            LET e == task[c].log[k]
                d == DefOf(c)
                val == frames[task[c].vref].cols[c][e.index + 1]
                errs == {er \in task[c].errored : er.index = e.index}
                raising == task[c].status = "raised" /\ k = Len(task[c].log)
            IN /\ e.index = k - 1
               /\ e.ran # <<>>
               /\ C20_IsPrefix(e.ran, C20_AllChecks(d))
               /\ Cardinality(errs) <= 1
               /\ \A er \in errs :
                     C20_ErrorNamesFirstFailure(d, val, e.ran, er.error, er.func)
               /\ raising =>
                     LET last == e.ran[Len(e.ran)] IN
                     /\ task[c].exc = RaisedFor(last.c)
                     /\ C20_ErrorNamesFirstFailure(d, val, e.ran, last.c, last.k)
               /\ (errs = {} /\ ~raising) => e.ran = C20_AllChecks(d)

\* C20 witness: a row failed the first of two predicates, a row of the same
\* column failed the second, and both errors were recorded
C20_Witness ==
    \E c \in ColumnSet :
        /\ ValidateEntered
        /\ Len(DefOf(c).validation_functions) = 2
        /\ \E e1, e2 \in task[c].errored :
              /\ e1.error = "pred" /\ e1.func = 0
              /\ e2.error = "pred" /\ e2.func = 1

-----------------------------------------------------------------------------
(* Dataset.return_or_raise_approved_name (dataset.py:154-170) *)

\* a name is a sequence of characters; the characters the names are made of:
\* a lower-case and an upper-case letter, a digit, the underscore, the hyphen,
\* the space, the slash and the newline
MaxNameLen == 3

NameChars == {"t", "T", "1", "_", "-", " ", "/", "\n"}

Names == UNION {[1..n -> NameChars] : n \in 0..MaxNameLen}

\* str.lower()
StrLower(s) == [k \in 1..Len(s) |-> IF s[k] = "T" THEN "t" ELSE s[k]]

\* str.replace(old, new) for one-character old and new
StrReplace(s, old, new) == [k \in 1..Len(s) |-> IF s[k] = old THEN new ELSE s[k]]

\* the characters of the class [a-z0-9_\-]
InApprovedClass(ch) == ch \in {"t", "1", "_", "-"}

\* re.match(r"^[a-z0-9_\-]*$", s): the class repeated from the start of the
\* string, then "$", which matches at the end of the string and also just
\* before a newline that is the last character of the string
ReMatchApproved(s) ==
    \/ \A k \in 1..Len(s) : InApprovedClass(s[k])
    \/ /\ Len(s) >= 1
       /\ s[Len(s)] = "\n"
       /\ \A k \in 1..(Len(s) - 1) : InApprovedClass(s[k])

ReturnOrRaiseApprovedName_NeverRaises(name) ==
    [ok |-> TRUE, exc |-> "none",
     name |-> StrReplace(StrReplace(StrLower(name), " ", "_"), "-", "_")]

\* dataset.py:163-170
ReturnOrRaiseApprovedName(name) ==
    LET cleaned == StrReplace(StrReplace(StrLower(name), " ", "_"), "-", "_") IN
    IF ~ReMatchApproved(cleaned)
    THEN [ok |-> FALSE, exc |-> "ValueError", name |-> cleaned]
    ELSE [ok |-> TRUE, exc |-> "none", name |-> cleaned]

InitName ==
    /\ ValidationIdle
    /\ KeyIdle
    /\ SettersIdle
    /\ DistributeIdle
    /\ AuxIdle
    /\ pc = "name"
    /\ nameIn \in Names
    /\ nameOut = <<>>

\* a caller calls return_or_raise_approved_name(nameIn)
CallApprovedName ==
    /\ pc = "name"
    /\ nameOut = <<>>
    /\ nameOut' = <<ReturnOrRaiseApprovedName(nameIn)>>
    /\ UNCHANGED <<valVars, keyVars, nameIn, setVars, distVars, auxVars>>

\* the caller passes a returned name to return_or_raise_approved_name again
CallApprovedNameAgain ==
    /\ pc = "name"
    /\ Len(nameOut) = 1
    /\ nameOut[1].ok
    /\ nameOut' = Append(nameOut, ReturnOrRaiseApprovedName(nameOut[1].name))
    /\ UNCHANGED <<valVars, keyVars, nameIn, setVars, distVars, auxVars>>

NextName ==
    \/ CallApprovedName
    \/ CallApprovedNameAgain

SpecName == InitName /\ [][NextName]_vars

\* C15: a call returns the lower-cased name with spaces and hyphens replaced by
\* underscores, and returns it only if every character of it is one of
\* a-z 0-9 _ - (otherwise it raises ValueError); "T t" gives "t_t", a name with
\* a slash raises; a second call on a returned name returns it unchanged.
C15_ApprovedNameIsCleanAndIdempotent ==
    /\ Len(nameOut) >= 1 =>
          LET r == nameOut[1]
              cleaned == [k \in 1..Len(nameIn) |->
                            CASE nameIn[k] = "T" -> "t"
                              [] nameIn[k] \in {" ", "-"} -> "_"
                              [] OTHER -> nameIn[k]]
          IN /\ r.ok = (\A k \in 1..Len(cleaned) : cleaned[k] \in {"t", "1", "_", "-"})
             /\ r.ok => r.name = cleaned
             /\ ~r.ok => r.exc = "ValueError"
             /\ nameIn = <<"T", " ", "t">> => (r.ok /\ r.name = <<"t", "_", "t">>)
             /\ (\E k \in 1..Len(nameIn) : nameIn[k] = "/") => ~r.ok
    /\ Len(nameOut) = 2 => (nameOut[2].ok /\ nameOut[2].name = nameOut[1].name)

-----------------------------------------------------------------------------
(* The Dataset object (dataset.py:31-152) *)

MaxDistRows == 3

\* the manifest of a Dataset: a metadata column and two columns of paths
DistColumns == <<"Structure", "ReadPath", "SegPath">>
DistColumnSet == {DistColumns[k] : k \in 1..Len(DistColumns)}

DistRow(structure, read, seg) ==
    [Structure |-> structure, ReadPath |-> Val("str", read), SegPath |-> Val("str", seg)]

\* the rows a manifest is made of: files, a file spelled in two ways, two
\* files of one name, directories, a path that does not exist, and a
\* Structure cell that holds a list
DistRowPool ==
    { DistRow(Val("str", "lamin"), "a/0.tiff", "b/0.tiff"),
      DistRow(Val("str", "lamin"), "/data/a/0.tiff", "a/0.tiff"),
      DistRow(Val("str", "mito"), "a/0.tiff", "b"),
      DistRow(Val("str", "mito"), "a", "b/0.tiff"),
      DistRow(Val("list", "[1]"), "b/0.tiff", "b/0.tiff"),
      DistRow(Val("list", "[1]"), "a", "b"),
      DistRow(Val("str", "lamin"), "x.png", "b/0.tiff") }

DistRowSeqs == UNION {[1..n -> DistRowPool] : n \in 0..MaxDistRows}

DistFrameOf(rows) ==
    [index |-> IndexOf("range", Len(rows)),
     cols  |-> [c \in DistColumnSet |-> [k \in 1..Len(rows) |-> rows[k][c]]]]

\* Dataset.__init__ (dataset.py:32-79) given a dataframe and an approved name
NewDataset(data, name) ==
    [data |-> data, name |-> name, package_owner |-> "me",
     metadata_columns |-> <<>>, path_columns |-> <<>>,
     column_names_map |-> <<>>, extra_files |-> <<>>]

\* a dict is a sequence of <<key, value>> pairs in insertion order
DictKeys(d) == [k \in 1..Len(d) |-> d[k][1]]
DictHas(d, key) == \E k \in 1..Len(d) : d[k][1] = key
DictGet(d, key) == d[CHOOSE k \in 1..Len(d) : d[k][1] = key][2]

\* dataset.py:123, 135, 149: any(col in self.data.columns for col in columns)
ColumnsFound(data, columns) ==
    \E k \in 1..Len(columns) : columns[k] \in DOMAIN data.cols

\* the lists and dicts a caller passes to the setters
ColumnLists ==
    { <<"Structure">>, <<"ReadPath", "SegPath">>, <<"Structure", "DoesNotExist">>,
      <<"DoesNotExist">>, <<"DoesNotExist1", "DoesNotExist2">>, <<>> }

ColumnDicts ==
    { <<<<"ReadPath", "fov">>>>, <<<<"ReadPath", "fov">>, <<"DNE", "DNELabeled">>>>,
      <<<<"DNE", "DNELabeled">>>>, <<>> }

InitSetters ==
    /\ ValidationIdle
    /\ KeyIdle
    /\ NameIdle
    /\ DistributeIdle
    /\ AuxIdle
    /\ pc = "set"
    /\ \E rows \in DistRowSeqs :
          /\ Len(rows) <= 1
          /\ dataset = NewDataset(DistFrameOf(rows), <<"t">>)
    /\ lastCall = <<>>

SetterCall(op, columns, before, raised) ==
    [op |-> op, columns |-> columns, before |-> before, raised |-> raised]

\* set_metadata_columns (dataset.py:110-126)
SetMetadataColumns(columns) ==
    /\ pc = "set"
    /\ IF ~ColumnsFound(dataset.data, columns)
       THEN /\ lastCall' = <<SetterCall("set_metadata_columns", columns,
                                         dataset.metadata_columns, TRUE)>>
            /\ UNCHANGED dataset
       ELSE /\ dataset' = [dataset EXCEPT !.metadata_columns = columns]
            /\ lastCall' = <<SetterCall("set_metadata_columns", columns,
                                         dataset.metadata_columns, FALSE)>>
    /\ UNCHANGED <<valVars, keyVars, nameVars, distVars, auxVars>>

\* set_path_columns (dataset.py:128-138)
SetPathColumns(columns) ==
    /\ pc = "set"
    /\ IF ~ColumnsFound(dataset.data, columns)
       THEN /\ lastCall' = <<SetterCall("set_path_columns", columns,
                                         dataset.path_columns, TRUE)>>
            /\ UNCHANGED dataset
       ELSE /\ dataset' = [dataset EXCEPT !.path_columns = columns]
            /\ lastCall' = <<SetterCall("set_path_columns", columns,
                                         dataset.path_columns, FALSE)>>
    /\ UNCHANGED <<valVars, keyVars, nameVars, distVars, auxVars>>

\* set_column_names_map (dataset.py:140-152): iterating a dict gives its keys
SetColumnNamesMap(columns) ==
    /\ pc = "set"
    /\ IF ~ColumnsFound(dataset.data, DictKeys(columns))
       THEN /\ lastCall' = <<SetterCall("set_column_names_map", columns,
                                         dataset.column_names_map, TRUE)>>
            /\ UNCHANGED dataset
       ELSE /\ dataset' = [dataset EXCEPT !.column_names_map = columns]
            /\ lastCall' = <<SetterCall("set_column_names_map", columns,
                                         dataset.column_names_map, FALSE)>>
    /\ UNCHANGED <<valVars, keyVars, nameVars, distVars, auxVars>>

NextSetters ==
    \/ \E columns \in ColumnLists : SetMetadataColumns(columns)
    \/ \E columns \in ColumnLists : SetPathColumns(columns)
    \/ \E columns \in ColumnDicts : SetColumnNamesMap(columns)

SpecSetters == InitSetters /\ [][NextSetters]_vars

\* the setting a setter stores into
C17_Setting(op) ==
    CASE op = "set_metadata_columns" -> dataset.metadata_columns
      [] op = "set_path_columns"     -> dataset.path_columns
      [] OTHER                       -> dataset.column_names_map

\* the column names a setter's argument provides
C17_Provided(call) ==
    IF call.op = "set_column_names_map"
    THEN {call.columns[k][1] : k \in 1..Len(call.columns)}
    ELSE {call.columns[k] : k \in 1..Len(call.columns)}

\* C17: a setter call that provided one or more columns missing from the
\* manifest raised ValueError and left the stored setting as it was; a call
\* all of whose columns are in the manifest replaced the setting.
C17_SettersRejectMissingColumns ==
    lastCall # <<>> =>
        LET call == lastCall[1]
            missing == C17_Provided(call) \ DOMAIN dataset.data.cols
        IN /\ missing # {} => (call.raised /\ C17_Setting(call.op) = call.before)
           /\ missing = {} => (~call.raised /\ C17_Setting(call.op) = call.columns)

-----------------------------------------------------------------------------
(* validate(data) with an inferred schema (validation.py:85-122, 431-480) *)

\* v.__class__ at validation.py:99: the class of a Path object is PosixPath
ClassOf(val) == IF val.t = "Path" THEN "PosixPath" ELSE val.t

\* Counter(...).most_common(1)[0][0] at validation.py:104: the class counted
\* most often, the one met first among equals
MostCommon(values) ==
    LET count(c) == Cardinality({k \in 1..Len(values) : ClassOf(values[k]) = c})
        k0 == CHOOSE k \in 1..Len(values) :
                /\ \A j \in 1..Len(values) : count(ClassOf(values[j])) <= count(ClassOf(values[k]))
                /\ \A j \in 1..(k - 1) : count(ClassOf(values[j])) < count(ClassOf(values[k]))
    IN ClassOf(values[k0])

\* validation.py:110: the column names of the model on which the test
\* any(sub in col.lower() for sub in ["file", "path", "_dir", "directory"])
\* and not col.lower().endswith("id") is true
PathIndicated(col) == col \in {"ReadPath", "SegPath"}

\* validation.py:94-120: the FeatureDefinition inferred for one column
InferredDefinition(col, values) ==
    LET dtypes == {ClassOf(values[k]) : k \in 1..Len(values)}
        popular == MostCommon(values)
        dtype == IF PathIndicated(col) /\ popular \in {"str", "Path"}
                 THEN "Path" ELSE popular
    IN FeatureDefinitionInit(Args(dtype, "none", <<>>, Cardinality(dtypes) > 1)).fd

\* _generate_schema_template: most_common(1)[0] of an empty Counter is an
\* IndexError
GenerateSchemaTemplate(data) ==
    IF NRows(data) = 0
    THEN [ok |-> FALSE, exc |-> "IndexError"]
    ELSE [ok |-> TRUE, exc |-> "none",
          schema |-> [c \in DOMAIN data.cols |-> InferredDefinition(c, data.cols[c])]]

RECURSIVE ProcessValues(_, _, _)
\* Validator.process with drop_on_error false, from row k (1-based) on: the
\* exception of the first row that fails, and the values as the casts left them
ProcessValues(definition, values, k) ==
    IF k > Len(values) THEN [exc |-> "none", values |-> values]
    ELSE LET r == CheckRow(definition, values[k])
             written == IF r.wrote THEN [values EXCEPT ![k] = r.val] ELSE values
         IN IF r.fail # "none"
            THEN [exc |-> RaisedFor(r.fail), values |-> written]
            ELSE ProcessValues(definition, written, k + 1)

\* validate(self.data) as distribute calls it (dataset.py:276): schema inferred,
\* drop_on_error false; the exception raised is that of the first column, in
\* schema order, whose validator raised
Validate(data) ==
    LET t == GenerateSchemaTemplate(data) IN
    IF ~t.ok THEN [ok |-> FALSE, exc |-> t.exc]
    ELSE LET res == [c \in DistColumnSet |-> ProcessValues(t.schema[c], data.cols[c], 1)]
             failing == {k \in 1..Len(DistColumns) : res[DistColumns[k]].exc # "none"}
         IN IF failing # {}
            THEN [ok |-> FALSE,
                  exc |-> res[DistColumns[CHOOSE k \in failing : \A j \in failing : k <= j]].exc]
            ELSE [ok |-> TRUE, exc |-> "none",
                  data |-> [data EXCEPT !.cols = [c \in DistColumnSet |-> res[c].values]],
                  schema |-> t.schema]

-----------------------------------------------------------------------------
(* Dataset.distribute (dataset.py:233-442) *)

\* a logical key "{label}/{hash}_{name}"; "README.md" and "metadata.csv" have
\* no label and no hash
FixedKey(name) == [label |-> "", hash |-> 0, name |-> name]
KeyOf(lk) == [label |-> lk.label, hash |-> lk.hash, name |-> lk.name]

KeyCell_LabelAndName(key) ==
    [t |-> "str", v |-> "logical key", key |-> [key EXCEPT !.hash = 0]]

\* the str that dataset.py:340 and 411 assign to a cell: a logical key
KeyCell(key) == [t |-> "str", v |-> "logical key", key |-> key]

\* a path of the filesystem, and a path inside the temporary directory
FsPath(parts) == [tmp |-> FALSE, parts |-> parts]
TmpPath(name) == [tmp |-> TRUE, parts |-> <<name>>]

\* an entry of the package: a file (PackageEntry) or a directory (set_dir)
Entry(kind, physical_key, meta) ==
    [kind |-> kind, physical_key |-> physical_key, meta |-> meta]

\* pkg.set(key, ...) / pkg.set_dir(key, ...)
PkgSet(p, key, entry) ==
    [k \in DOMAIN p \cup {key} |-> IF k = key THEN entry ELSE p[k]]

\* d[key] = value on a dict
DictSet(d, key, value) ==
    IF DictHas(d, key)
    THEN [k \in 1..Len(d) |-> IF d[k][1] = key THEN <<key, value>> ELSE d[k]]
    ELSE Append(d, <<key, value>>)

\* a metadata value: a list of cell values, or (list false) the single value vals[1]
MetaList(vals) == [list |-> TRUE, vals |-> vals]
MetaScalar(v) == [list |-> FALSE, vals |-> <<v>>]

JSONSerializable_Any(v) == TRUE

\* dataset.py:26 and 356: isinstance(v, JSONSerializableTypes)
JSONSerializable(v) == v.t \in {"str", "int", "float", "bool", "NoneType"}

RECURSIVE BuildMeta(_, _, _, _)
\* dataset.py:343-364: the metadata of row i (0-based) from the metadata
\* columns k.. on; v_ds.data[meta_col] of a missing column is a KeyError
BuildMeta(data, columns, i, k) ==
    IF k > Len(columns) THEN [ok |-> TRUE, exc |-> "none", meta |-> <<>>]
    ELSE IF columns[k] \notin DOMAIN data.cols
    THEN [ok |-> FALSE, exc |-> "KeyError", meta |-> <<>>]
    ELSE LET v == data.cols[columns[k]][i + 1] IN
         IF ~JSONSerializable(v)
         THEN [ok |-> FALSE, exc |-> "TypeError", meta |-> <<>>]
         ELSE LET rest == BuildMeta(data, columns, i, k + 1) IN
              IF rest.ok
              THEN [rest EXCEPT !.meta = <<<<columns[k], MetaList(<<v>>)>>>> \o rest.meta]
              ELSE rest

\* dataset.py:396: joined_values.count(joined_values[0]) == len(joined_values)
AllSame(vals) == Cardinality({k \in 1..Len(vals) : vals[k] = vals[1]}) = Len(vals)

JoinedMeta_SkipEqual(curr, meta) ==
    [k \in 1..Len(curr) |->
        <<curr[k][1],
          IF \E j \in 1..Len(curr[k][2].vals) :
                curr[k][2].vals[j] = DictGet(meta, curr[k][1]).vals[1]
          THEN curr[k][2]
          ELSE MetaList(curr[k][2].vals \o DictGet(meta, curr[k][1]).vals)>>]

\* dataset.py:371-372
JoinedMeta(curr, meta) ==
    [k \in 1..Len(curr) |->
        <<curr[k][1], MetaList(curr[k][2].vals \o DictGet(meta, curr[k][1]).vals)>>]

ReductionAfterJoin_Unchanged(map, joined) == map

ReductionAfterJoin_LastJoinDecides(map, joined) ==
    [m \in DOMAIN map |->
        IF DictHas(joined, m) THEN AllSame(DictGet(joined, m).vals) ELSE map[m]]

\* dataset.py:382-399: a column stays reducible while the joined values of
\* every entry joined so far are all equal; a false is never set back
ReductionAfterJoin(map, joined) ==
    [m \in DOMAIN map |->
        IF map[m] /\ DictHas(joined, m) THEN AllSame(DictGet(joined, m).vals) ELSE map[m]]

\* dataset.py:317-320
ColLabel(col) ==
    IF DictHas(dataset.column_names_map, col)
    THEN DictGet(dataset.column_names_map, col) ELSE col

\* dataset.py:406-409: associates[i][col_label] = logical_key, or append a new
\* dict when position i does not exist
AssociatesAfter(assoc, i, col_label, key) ==
    IF i < Len(assoc)
    THEN [assoc EXCEPT ![i + 1] = DictSet(@, col_label, key)]
    ELSE Append(assoc, <<<<col_label, key>>>>)

CellOutcome(e, data, p, map, assoc) ==
    [exc |-> e, data |-> data, pkg |-> p, map |-> map, associates |-> assoc]

\* dataset.py:323-412: the body of the loops for column col and row i (0-based)
DistributeCellResult(col, i) ==
    LET col_label == ColLabel(col)
        path == CastPath(v_ds.cols[col][i + 1])
        same(e) == CellOutcome(e, v_ds, pkg, metadata_reduction_map, associates)
    IN IF ~path.ok THEN same(path.exc)
       ELSE LET lk == LogicalKey(col_label, path.val) IN
       IF ~lk.ok THEN same(lk.exc)
       ELSE LET key == KeyOf(lk)
                physical_key == Resolve(ExpandUser(AsPath(path.val)))
                data == [v_ds EXCEPT !.cols[col][i + 1] = KeyCell(key)]
            IN IF physical_key \in FsFiles
               THEN LET m == BuildMeta(data, dataset.metadata_columns, i, 1) IN
                    IF ~m.ok
                    THEN CellOutcome(m.exc, data, pkg, metadata_reduction_map, associates)
                    ELSE IF key \in DOMAIN pkg
                    THEN LET joined == JoinedMeta(pkg[key].meta, m.meta) IN
                         CellOutcome("none", data,
                                     [pkg EXCEPT ![key].meta = joined],
                                     ReductionAfterJoin(metadata_reduction_map, joined),
                                     AssociatesAfter(associates, i, col_label, key))
                    ELSE CellOutcome("none", data,
                                     PkgSet(pkg, key, Entry("file", FsPath(physical_key), m.meta)),
                                     metadata_reduction_map,
                                     AssociatesAfter(associates, i, col_label, key))
               ELSE CellOutcome("none", data,
                                PkgSet(pkg, key, Entry("dir", FsPath(physical_key), <<>>)),
                                metadata_reduction_map, associates)

CleanMeta_KeepLists(meta, map) == meta

\* dataset.py:195-231: _recursive_clean
CleanMeta(meta, map) ==
    [k \in 1..Len(meta) |->
        <<meta[k][1],
          IF map[meta[k][1]] THEN MetaScalar(meta[k][2].vals[1]) ELSE meta[k][2]>>]

RecursiveClean(p, map) ==
    [key \in DOMAIN p |-> [p[key] EXCEPT !.meta = CleanMeta(@, map)]]

DictValues(d) == {d[k][2] : k \in 1..Len(d)}

RECURSIVE AttachAssociates(_, _, _)
\* dataset.py:422-426: for the mappings from position i (1-based) on, every
\* entry named in a mapping gets that mapping under "associates"
AttachAssociates(p, assoc, i) ==
    IF i > Len(assoc) THEN p
    ELSE AttachAssociates(
            [key \in DOMAIN p |->
                IF key \in DictValues(assoc[i])
                THEN [p[key] EXCEPT !.meta = DictSet(@, "associates", [map |-> assoc[i]])]
                ELSE p[key]],
            assoc, i + 1)

RECURSIVE SetExtraFiles(_, _, _, _)
\* dataset.py:434-436: pkg.set(f"{lk_parent}/{f.name}", f) for every extra file
SetExtraFiles(p, extra, k, j) ==
    IF k > Len(extra) THEN p
    ELSE IF j > Len(extra[k][2]) THEN SetExtraFiles(p, extra, k + 1, 1)
    ELSE LET f == extra[k][2][j] IN
         SetExtraFiles(
            PkgSet(p, [label |-> extra[k][1], hash |-> 0, name |-> Last(f)],
                   Entry("file", FsPath(f), <<>>)),
            extra, k, j + 1)

TmpAfterExit_Kept(t) == t

\* leaving `with tempfile.TemporaryDirectory() as tmpdir` (dataset.py:259), by
\* return or by exception, removes the directory
TmpAfterExit(t) == IF t = "exists" THEN "removed" ELSE t

\* what the setters were called with before distribute: nothing; the metadata
\* column; also a path column, a label for it and an extra file; a metadata
\* column list of which one column is missing (set_metadata_columns stores it);
\* two metadata columns, one of them a column of paths
Settings(metadata, paths, names, extra) ==
    [metadata_columns |-> metadata, path_columns |-> paths,
     column_names_map |-> names, extra_files |-> extra]

DistSettings ==
    { Settings(<<>>, <<>>, <<>>, <<>>),
      Settings(<<"Structure">>, <<>>, <<>>, <<>>),
      Settings(<<"Structure">>, <<"ReadPath">>, <<<<"ReadPath", "fov">>>>,
               <<<<"supporting_files", <<<<"data", "b", "0.tiff">>>>>>>>),
      Settings(<<"Structure", "DoesNotExist">>, <<>>, <<>>, <<>>),
      Settings(<<"Structure", "ReadPath">>, <<>>, <<>>, <<>>) }

\* the name the Dataset holds when distribute is called: self.name is a
\* plain attribute, so it is what the constructor approved or whatever was
\* assigned to it afterwards ("T t", which normalizes to "t_t", and "t/")
DistNames == {<<"T", " ", "t">>, <<"t", "/">>}

PushUris == {"None", "s3://bucket"}

Messages == {"None", "some message"}

\* the calls distribute(push_uri, message, attach_associates): half of the
\* combinations, in which every two values of two arguments occur together
DistCalls ==
    {c \in [push_uri : PushUris, message : Messages, attach_associates : BOOLEAN] :
        c.attach_associates = ((c.push_uri = "None") = (c.message = "None"))}


InitDistribute ==
    /\ ValidationIdle
    /\ KeyIdle
    /\ NameIdle
    /\ DistributeIdle
    /\ AuxIdle
    /\ pc = "distribute"
    /\ \E rows \in DistRowSeqs, name \in DistNames, st \in DistSettings :
          dataset = [NewDataset(DistFrameOf(rows), name) EXCEPT
                        !.metadata_columns = st.metadata_columns,
                        !.path_columns = st.path_columns,
                        !.column_names_map = st.column_names_map,
                        !.extra_files = st.extra_files]
    /\ lastCall = <<>>

\* an exception leaves distribute: through the `with` block if it was entered
DistributeRaise(e) ==
    /\ pc' = "raised"
    /\ exc' = e
    /\ tmpdir' = TmpAfterExit(tmpdir)

\* dataset.py:251-273: the name is checked again, the package is created, the
\* temporary directory entered and the README written to it and set
DistributeCall(push_uri, message, attach_associates) ==
    /\ pc = "distribute"
    /\ LET r == ReturnOrRaiseApprovedName(dataset.name) IN
          /\ distArgs' = [push_uri |-> push_uri, message |-> message,
                          attach_associates |-> attach_associates, name |-> r.name]
          /\ IF ~r.ok
             THEN /\ DistributeRaise(r.exc)
                  /\ UNCHANGED pkg
             ELSE /\ pkg' = PkgSet(<<>>, FixedKey("README.md"),
                                   Entry("file", TmpPath("README.md"), <<>>))
                  /\ tmpdir' = "exists"
                  /\ pc' = "validate"
                  /\ UNCHANGED exc
    /\ UNCHANGED <<valData, ret, keyVars, nameVars, setVars, auxVars, v_ds, fp_cols,
                   metadata_reduction_map, associates, cursor, manifest_csv, pushed>>

\* dataset.py:279-282: the path columns set, or the columns whose schema dtype
\* is printed with "Path" in it
FpCols(schema) ==
    IF Len(dataset.path_columns) > 0 THEN dataset.path_columns
    ELSE SelectSeq(DistColumns, LAMBDA c : schema[c].dtype \in {"Path", "PosixPath"})

\* dataset.py:275-311
DistributeValidate ==
    /\ pc = "validate"
    /\ \E r \in {Validate(dataset.data)} :
       IF ~r.ok
       THEN /\ DistributeRaise(r.exc)
            /\ UNCHANGED <<v_ds, fp_cols, associates, metadata_reduction_map, cursor>>
       ELSE /\ v_ds' = r.data
            /\ fp_cols' = FpCols(r.schema)
            /\ associates' = <<>>
            /\ metadata_reduction_map' =
                  [m \in {dataset.metadata_columns[k] :
                            k \in 1..Len(dataset.metadata_columns)} |-> TRUE]
            /\ cursor' = [col |-> 1, row |-> 0]
            /\ pc' = IF FpCols(r.schema) = <<>> THEN "clean" ELSE "files"
            /\ UNCHANGED <<exc, tmpdir>>
    /\ UNCHANGED <<valData, ret, keyVars, nameVars, setVars, auxVars, distArgs, pkg,
                   manifest_csv, pushed>>

\* dataset.py:315-415: one pass of the inner loop
DistributeCell ==
    /\ pc = "files"
    /\ \E r \in {DistributeCellResult(fp_cols[cursor.col], cursor.row)} :
       LET lastRow == cursor.row + 1 = NRows(v_ds)
       IN /\ v_ds' = r.data
          /\ pkg' = r.pkg
          /\ metadata_reduction_map' = r.map
          /\ associates' = r.associates
          /\ IF r.exc # "none"
             THEN /\ DistributeRaise(r.exc)
                  /\ UNCHANGED cursor
             ELSE /\ cursor' = IF lastRow THEN [col |-> cursor.col + 1, row |-> 0]
                               ELSE [cursor EXCEPT !.row = @ + 1]
                  /\ pc' = IF lastRow /\ cursor.col = Len(fp_cols) THEN "clean" ELSE "files"
                  /\ UNCHANGED <<exc, tmpdir>>
    /\ UNCHANGED <<valData, ret, keyVars, nameVars, setVars, auxVars, distArgs, fp_cols,
                   manifest_csv, pushed>>

\* dataset.py:418
DistributeClean ==
    /\ pc = "clean"
    /\ pkg' = RecursiveClean(pkg, metadata_reduction_map)
    /\ pc' = "attach"
    /\ UNCHANGED <<valData, exc, ret, keyVars, nameVars, setVars, auxVars, distArgs, tmpdir,
                   v_ds, fp_cols, metadata_reduction_map, associates, cursor,
                   manifest_csv, pushed>>

\* dataset.py:421-426
DistributeAttach ==
    /\ pc = "attach"
    /\ pkg' = IF distArgs.attach_associates
              THEN AttachAssociates(pkg, associates, 1) ELSE pkg
    /\ pc' = "manifest"
    /\ UNCHANGED <<valData, exc, ret, keyVars, nameVars, setVars, auxVars, distArgs, tmpdir,
                   v_ds, fp_cols, metadata_reduction_map, associates, cursor,
                   manifest_csv, pushed>>

\* dataset.py:429-436: metadata.csv is written and set, the extra files are set
DistributeManifest ==
    /\ pc = "manifest"
    /\ manifest_csv' = <<v_ds>>
    /\ pkg' = SetExtraFiles(
                 PkgSet(pkg, FixedKey("metadata.csv"),
                        Entry("file", TmpPath("metadata.csv"), <<>>)),
                 dataset.extra_files, 1, 1)
    /\ pc' = "push"
    /\ UNCHANGED <<valData, exc, ret, keyVars, nameVars, setVars, auxVars, distArgs, tmpdir,
                   v_ds, fp_cols, metadata_reduction_map, associates, cursor, pushed>>

PushResult_Unpushed(p) == p

\* what pkg.push(name, dest=, message=) returns for the package p
PushResult(p) == [pushed |-> p]

\* the call pkg.push(f"{self.package_owner}/{name}", dest=push_uri, message=message)
PushCall ==
    [name |-> <<dataset.package_owner, distArgs.name>>, dest |-> distArgs.push_uri,
     message |-> distArgs.message, pkg |-> pkg]

\* dataset.py:439-442: the optional push, which succeeds or raises, then the
\* return
DistributeReturn ==
    /\ pc = "push"
    /\ \/ /\ distArgs.push_uri = "None"
          /\ ret' = <<pkg>>
          /\ pc' = "returned"
          /\ tmpdir' = TmpAfterExit(tmpdir)
          /\ UNCHANGED <<exc, pushed>>
       \/ /\ distArgs.push_uri # "None"
          /\ pushed' = Append(pushed, PushCall)
          /\ ret' = <<PushResult(pkg)>>
          /\ pc' = "returned"
          /\ tmpdir' = TmpAfterExit(tmpdir)
          /\ UNCHANGED exc
       \/ /\ distArgs.push_uri # "None"
          /\ pushed' = Append(pushed, PushCall)
          /\ DistributeRaise("PushError")
          /\ UNCHANGED ret
    /\ UNCHANGED <<valData, keyVars, nameVars, setVars, auxVars, distArgs, pkg, v_ds, fp_cols,
                   metadata_reduction_map, associates, cursor, manifest_csv>>

NextDistribute ==
    \/ \E call \in DistCalls :
          DistributeCall(call.push_uri, call.message, call.attach_associates)
    \/ DistributeValidate
    \/ DistributeCell
    \/ DistributeClean
    \/ DistributeAttach
    \/ DistributeManifest
    \/ DistributeReturn

SpecDistribute == InitDistribute /\ [][NextDistribute]_vars

DistDone == pc \in {"returned", "raised"}

-----------------------------------------------------------------------------
(* What the claims about distribute speak of, stated from the manifest *)

\* the loops at dataset.py:315-415 are over; the cleanup at 418 is over; the
\* attachment at 421-426 is over
AfterLoop ==
    pc \in {"clean", "attach", "manifest", "push", "returned"}
    \/ (pc = "raised" /\ exc = "PushError")
AfterClean == AfterLoop /\ pc # "clean"
AfterAttach == AfterClean /\ pc # "attach"

DistRows == 0..(NRows(dataset.data) - 1)

\* the path strings of the manifests, the absolute path each names and the
\* digest of that path
PathStringPool == {r[c].v : r \in DistRowPool, c \in {"ReadPath", "SegPath"}}
ResolvedOfString ==
    [s \in PathStringPool |-> Resolve(ExpandUser(PathParts(PathOfStr(s))))]
HashOfString == [s \in PathStringPool |-> Sha256Hex(ResolvedOfString[s])]

\* the absolute path the cell of row i (0-based) of a path column names
CellResolved(col, i) == ResolvedOfString[dataset.data.cols[col][i + 1].v]

CellIsFile(col, i) == CellResolved(col, i) \in FsFiles

\* the logical key of that cell: the column's label, the digest of the
\* resolved path and its last component
CellKey(col, i) ==
    [label |-> ColLabel(col), hash |-> HashOfString[dataset.data.cols[col][i + 1].v],
     name |-> Last(CellResolved(col, i))]

FpColSet == {fp_cols[k] : k \in 1..Len(fp_cols)}
MetaColSet == {dataset.metadata_columns[k] : k \in 1..Len(dataset.metadata_columns)}

\* the file entries registered from cells of the path columns
FileKeys ==
    {key \in DOMAIN pkg : pkg[key].kind = "file"
                          /\ \E col \in FpColSet : key.label = ColLabel(col)}

\* the rows (0-based) whose cell in the column of key's label is the file of key
RowsOf(key) ==
    {i \in DistRows : \E col \in FpColSet :
        /\ ColLabel(col) = key.label
        /\ CellIsFile(col, i)
        /\ CellKey(col, i) = key}

\* the values those rows hold in metadata column M, in row order
ValuesOf(key, M) == KeepRows(v_ds.cols[M], {i + 1 : i \in RowsOf(key)}, 1)

AllAgree(key, M) ==
    \A i, j \in RowsOf(key) : v_ds.cols[M][i + 1] = v_ds.cols[M][j + 1]

\* C11: once the path columns are walked, the file entries under a column's
\* label are as many as the distinct resolved files the column's cells name,
\* and a metadata list of an entry has one value per row that names its file.
C11_OneEntryPerResolvedFile ==
    AfterLoop =>
        \A col \in FpColSet :
            LET entries == {key \in FileKeys : key.label = ColLabel(col)}
                files == {CellResolved(col, i) : i \in {j \in DistRows : CellIsFile(col, j)}}
            IN /\ Cardinality(entries) = Cardinality(files)
               /\ \A key \in entries :
                     \A k \in 1..Len(pkg[key].meta) :
                         (pkg[key].meta[k][1] \in MetaColSet /\ pkg[key].meta[k][2].list)
                            => Len(pkg[key].meta[k][2].vals) = Cardinality(RowsOf(key))

\* C11 witness: distribute returned; one column named one file in two
\* spellings and another file, and holds two entries
C11_Witness ==
    /\ pc = "returned"
    /\ \E col \in FpColSet :
          /\ \E i, j \in DistRows :
                /\ dataset.data.cols[col][i + 1] # dataset.data.cols[col][j + 1]
                /\ CellIsFile(col, i)
                /\ CellResolved(col, i) = CellResolved(col, j)
          /\ Cardinality({key \in FileKeys : key.label = ColLabel(col)}) = 2
          /\ NRows(dataset.data) = 3

\* C12 as stated: after the cleanup, a metadata column M on which all rows of
\* a file entry agree is that single value on the entry, whatever the rows of
\* other entries hold.
C12_ScalarDecidedPerKey ==
    AfterClean =>
        \A key \in FileKeys : \A M \in MetaColSet :
            AllAgree(key, M)
                => DictGet(pkg[key].meta, M) = MetaScalar(ValuesOf(key, M)[1])

\* C12 amended: reducibility is decided per metadata column over the whole
\* package.  An entry all of whose rows agree on M holds that single value if
\* the rows of every file entry agree on M, and otherwise the list of its
\* rows' values.
C12_ScalarDecidedPerColumn ==
    AfterClean =>
        \A key \in FileKeys : \A M \in MetaColSet :
            AllAgree(key, M)
                => DictGet(pkg[key].meta, M) =
                      IF \A other \in FileKeys : AllAgree(other, M)
                      THEN MetaScalar(ValuesOf(key, M)[1])
                      ELSE MetaList(ValuesOf(key, M))

\* C12 witness: distribute returned a package in which an entry named by two
\* or more rows that agree on a metadata column holds the single value
C12_Witness ==
    /\ pc = "returned"
    /\ \E key \in FileKeys : \E M \in MetaColSet :
          /\ Cardinality(RowsOf(key)) >= 2
          /\ AllAgree(key, M)
          /\ ~DictGet(pkg[key].meta, M).list

\* C13: after the cleanup, a metadata column M on which two rows of a file
\* entry differ is, on the entry, the list of the values of the entry's rows
\* in row order.
C13_ListOfContributingRows ==
    AfterClean =>
        \A key \in FileKeys : \A M \in MetaColSet :
            ~AllAgree(key, M)
                => /\ DictGet(pkg[key].meta, M).list
                   /\ DictGet(pkg[key].meta, M).vals = ValuesOf(key, M)
                   /\ Len(DictGet(pkg[key].meta, M).vals) = Cardinality(RowsOf(key))

\* C13 witness: distribute returned; an entry of three rows holds the list of
\* their three values, not all equal
C13_Witness ==
    /\ pc = "returned"
    /\ \E key \in FileKeys : \E M \in MetaColSet :
          /\ Cardinality(RowsOf(key)) = 3
          /\ ~AllAgree(key, M)
          /\ Len(DictGet(pkg[key].meta, M).vals) = 3

\* the label -> logical key pairs that row i's file cells produce
RowMap(i) ==
    {<<ColLabel(col), CellKey(col, i)>> : col \in {c \in FpColSet : CellIsFile(c, i)}}

DictPairs(d) == {d[k] : k \in 1..Len(d)}

LastRowOf(key) == CHOOSE i \in RowsOf(key) : \A j \in RowsOf(key) : j <= i

\* C14: with attach_associates true, after the attachment every file entry
\* registered from a path cell holds under "associates" the label -> key map of
\* the last row that names its file, the map names the entry's own key, and
\* the entry's other metadata fields are what the cleanup left.
C14_AssociatesAreTheLastRowsMap ==
    (AfterAttach /\ distArgs.attach_associates) =>
        \A key \in FileKeys :
            /\ DictHas(pkg[key].meta, "associates")
            /\ LET a == DictGet(pkg[key].meta, "associates").map IN
                  /\ DictPairs(a) = RowMap(LastRowOf(key))
                  /\ key \in DictValues(a)
            /\ {pkg[key].meta[k][1] : k \in 1..Len(pkg[key].meta)}
                  = MetaColSet \cup {"associates"}
            /\ \A M \in MetaColSet :
                  DictGet(pkg[key].meta, M) =
                     IF metadata_reduction_map[M]
                     THEN MetaScalar(ValuesOf(key, M)[1])
                     ELSE MetaList(ValuesOf(key, M))

\* validate has returned to distribute
Validated == DOMAIN cursor # {}

\* distribute raised inside the loops, at the cell the cursor is on
RaisedAtCell == pc = "raised" /\ Validated /\ cursor.col <= Len(fp_cols)

\* the configured metadata columns the manifest has
MetaColsFound == MetaColSet \cap DOMAIN dataset.data.cols

\* row i holds, in a configured metadata column, a value that is not a str,
\* int, float, bool or None
BadMetadataRow(i) ==
    \E M \in MetaColsFound : v_ds.cols[M][i + 1].t \notin {"str", "int", "float", "bool", "NoneType"}

RowHasFile(i) == \E col \in FpColSet : CellIsFile(col, i)

\* C16 as stated: when a row of the validated manifest holds a non-JSON value
\* in a configured metadata column, whatever its path cells are, distribute
\* does not finish the construction, returns and pushes nothing, and the
\* exception it ends with is TypeError.
C16_BadMetadataAlwaysFatal ==
    (Validated /\ \E i \in DistRows : BadMetadataRow(i)) =>
        /\ ~AfterLoop
        /\ ret = <<>>
        /\ pushed = <<>>
        /\ DistDone => exc = "TypeError"

\* the first configured metadata column, in order, that is missing or holds a
\* non-JSON value in row i is one that holds a non-JSON value
C16_FirstOffenceIsType(i) ==
    \E k \in 1..Len(dataset.metadata_columns) :
        /\ dataset.metadata_columns[k] \in DOMAIN v_ds.cols
        /\ v_ds.cols[dataset.metadata_columns[k]][i + 1].t
              \notin {"str", "int", "float", "bool", "NoneType"}
        /\ \A j \in 1..(k - 1) :
              /\ dataset.metadata_columns[j] \in DOMAIN v_ds.cols
              /\ v_ds.cols[dataset.metadata_columns[j]][i + 1].t
                    \in {"str", "int", "float", "bool", "NoneType"}

\* C16 amended: the check is made where metadata is attached, that is, for
\* rows with a regular file in a distributed path column.  No construction
\* finishes, and nothing is returned or pushed, with such a row holding a
\* non-JSON value in a configured metadata column; distribute raises
\* TypeError at the first file cell of such a row it reaches.  Rows whose path
\* cells are all directories are not checked.
C16_BadMetadataFatalForFileRows ==
    Validated =>
        /\ (\E i \in DistRows : BadMetadataRow(i) /\ RowHasFile(i)) =>
              /\ ~AfterLoop
              /\ ret = <<>>
              /\ pushed = <<>>
        /\ (RaisedAtCell /\ CellIsFile(fp_cols[cursor.col], cursor.row)
                /\ C16_FirstOffenceIsType(cursor.row))
              => exc = "TypeError"
        /\ (pc = "files" /\ cursor.row > 0) =>
              \A i \in 0..(cursor.row - 1) :
                  ~(BadMetadataRow(i) /\ CellIsFile(fp_cols[cursor.col], i))

\* C16 witness: distribute raised TypeError at a file cell of the second row,
\* which holds a list in the metadata column, after registering the directory
\* of the first row, which holds a list there too
C16_Witness ==
    /\ RaisedAtCell
    /\ exc = "TypeError"
    /\ cursor.row = 1
    /\ BadMetadataRow(1)
    /\ CellIsFile(fp_cols[cursor.col], 1)
    /\ BadMetadataRow(0)
    /\ ~CellIsFile(fp_cols[cursor.col], 0)
    /\ \E key \in DOMAIN pkg : pkg[key].kind = "dir"

\* C18: the manifest written to metadata.csv holds, in every cell of every
\* distributed path column, a logical key that the package has (a file or a
\* directory entry), and cells of one column that named the same resolved
\* path hold the same key.
C18_ManifestHoldsPackageKeys ==
    manifest_csv # <<>> =>
        LET written == manifest_csv[1] IN
        \A col \in FpColSet :
            /\ \A i \in DistRows :
                  /\ "key" \in DOMAIN written.cols[col][i + 1]
                  /\ written.cols[col][i + 1].key \in DOMAIN pkg
                  /\ pkg[written.cols[col][i + 1].key].kind \in {"file", "dir"}
                  /\ pkg[written.cols[col][i + 1].key].physical_key
                        = FsPath(CellResolved(col, i))
            /\ \A i, j \in DistRows :
                  CellResolved(col, i) = CellResolved(col, j)
                     => written.cols[col][i + 1] = written.cols[col][j + 1]

\* C18 witness: metadata.csv was written for a manifest one of whose path
\* columns named a file in two spellings and a directory
C18_Witness ==
    /\ manifest_csv # <<>>
    /\ \E col \in FpColSet :
          /\ \E i, j \in DistRows :
                /\ dataset.data.cols[col][i + 1] # dataset.data.cols[col][j + 1]
                /\ CellIsFile(col, i)
                /\ CellResolved(col, i) = CellResolved(col, j)
          /\ \E i \in DistRows : ~CellIsFile(col, i)

\* C19: when distribute has ended, by return or by any exception, no
\* temporary directory is left: the one it entered is removed, and it entered
\* none only if the name check raised; while distribute is between the name
\* check and its end the directory exists.
C19_TemporaryDirectoryRemoved ==
    /\ DistDone => tmpdir \in {"none", "removed"}
    /\ (DistDone /\ tmpdir = "none") => (exc = "ValueError" /\ ~Validated)
    /\ pc \in {"validate", "files", "clean", "attach", "manifest", "push"}
          => tmpdir = "exists"

\* C19 witness: push raised after the package was built, and the directory
\* that held README.md and metadata.csv is removed
C19_Witness ==
    /\ pc = "raised"
    /\ exc = "PushError"
    /\ manifest_csv # <<>>
    /\ tmpdir = "removed"

\* C21: the mapping that distribute keeps at position i of associates holds
\* only label -> logical key pairs that the cells of row i itself produce,
\* whether the path cells of the manifest are files or directories.
C21_AssociatesHoldOwnRowKeys ==
    Validated =>
        \A k \in 1..Len(associates) : DictPairs(associates[k]) \subseteq RowMap(k - 1)

\* the file entries that carry metadata column M
Carrying(M) == {key \in FileKeys : DictHas(pkg[key].meta, M)}

\* after the cleanup the entries that carry M all hold a single value for it,
\* or all hold a list
C22_UniformAccess ==
    AfterClean =>
        \A M \in MetaColSet :
            \/ \A key \in Carrying(M) : ~DictGet(pkg[key].meta, M).list
            \/ \A key \in Carrying(M) : DictGet(pkg[key].meta, M).list

\* a step leaves false every flag of metadata_reduction_map that is false
C22_FlagStaysFalse ==
    \A M \in DOMAIN metadata_reduction_map :
        ~metadata_reduction_map[M]
            => (M \in DOMAIN metadata_reduction_map' /\ ~metadata_reduction_map'[M])

\* C22: after distribute the metadata access is uniform per metadata column
\* (every file entry that carries M holds a scalar for it, or every one a
\* list), and a reducibility flag that became false during the construction is
\* never set back to true in that call.
C22_UniformPerColumnFlagNeverBack ==
    [](C22_UniformAccess) /\ [][C22_FlagStaysFalse]_vars

\* C22 witness: distribute returned with the flag of a metadata column false;
\* the rows of an entry of the first path column differ on the column, the
\* rows of a two-row entry of a later path column agree on it (a join that
\* happened with the flag already false), and both entries hold lists
C22_Witness ==
    /\ pc = "returned"
    /\ Len(fp_cols) = 2
    /\ \E M \in MetaColSet : \E k1, k2 \in Carrying(M) :
          /\ ~metadata_reduction_map[M]
          /\ k1.label = ColLabel(fp_cols[1])
          /\ k2.label = ColLabel(fp_cols[2])
          /\ ~AllAgree(k1, M)
          /\ AllAgree(k2, M)
          /\ Cardinality(RowsOf(k2)) = 2
          /\ DictGet(pkg[k1].meta, M).list
          /\ DictGet(pkg[k2].meta, M).list

\* the position in fp_cols of the path column whose label is that of key
ColumnOfKey(key) == CHOOSE c \in 1..Len(fp_cols) : ColLabel(fp_cols[c]) = key.label

\* the rows of key whose cell the loops have already passed
ContributedSoFar(key) ==
    {i \in RowsOf(key) :
        \/ ColumnOfKey(key) < cursor.col
        \/ (ColumnOfKey(key) = cursor.col /\ i < cursor.row)}

\* C23: during the construction and after the cleanup, every metadata field of
\* a file entry that is a list has one value per row that has contributed to
\* the entry so far, and the value at index i is the one that the i-th
\* contributing row (in row order) holds in the field's column; so all list
\* fields of an entry have the same length and correspond index by index.
C23_ListFieldsAlignedByRow ==
    Validated =>
        \A key \in FileKeys :
            \A k \in 1..Len(pkg[key].meta) :
                LET M == pkg[key].meta[k][1]
                    field == pkg[key].meta[k][2]
                IN (M \in MetaColSet /\ field.list)
                      => /\ Len(field.vals) = Cardinality(ContributedSoFar(key))
                         /\ field.vals =
                              KeepRows(v_ds.cols[M], {i + 1 : i \in ContributedSoFar(key)}, 1)

\* C23 witness: distribute returned a package with an entry of two rows that
\* keeps two list fields, and the two rows differ in both
C23_Witness ==
    /\ pc = "returned"
    /\ \E key \in FileKeys : \E M1, M2 \in MetaColSet :
          /\ M1 # M2
          /\ Cardinality(RowsOf(key)) = 2
          /\ DictGet(pkg[key].meta, M1).list
          /\ DictGet(pkg[key].meta, M2).list
          /\ ~AllAgree(key, M1)
          /\ ~AllAgree(key, M2)

\* self.name as distribute normalizes it, and whether that fails the check
C24_Normalized == StrReplace(StrReplace(StrLower(dataset.name), " ", "_"), "-", "_")
C24_NameFails == ~ReMatchApproved(C24_Normalized)

\* C24: distribute checks self.name again before any construction work.  With
\* a name that fails the check after normalization, distribute only raises
\* ValueError: no package entry is registered, no temporary directory is
\* created, validate is not run, nothing is written, returned or pushed.  With
\* a name that passes, the work begins under the normalized name.
C24_NameCheckedBeforeAnyWork ==
    /\ C24_NameFails =>
          /\ pc \in {"distribute", "raised"}
          /\ pc = "raised" => exc = "ValueError"
          /\ pkg = <<>>
          /\ tmpdir = "none"
          /\ ~Validated
          /\ manifest_csv = <<>>
          /\ ret = <<>>
          /\ pushed = <<>>
    /\ (~C24_NameFails /\ pc # "distribute") =>
          /\ tmpdir # "none"
          /\ distArgs.name = C24_Normalized

\* C24 witness: distribute raised on a Dataset whose name was reassigned to
\* one that holds a slash
C24_Witness ==
    /\ pc = "raised"
    /\ exc = "ValueError"
    /\ C24_NameFails
    /\ \E k \in 1..Len(dataset.name) : dataset.name[k] = "/"
    /\ NRows(dataset.data) > 0

\* the package p holds everything distribute registers: README.md, an entry for
\* every cell of the distributed path columns, metadata as the cleanup leaves
\* it, the associates when asked for, metadata.csv and the extra files
C25_Finished(p) ==
    /\ FixedKey("README.md") \in DOMAIN p
    /\ \A col \in FpColSet : \A i \in DistRows : CellKey(col, i) \in DOMAIN p
    /\ \A key \in FileKeys : \A M \in MetaColSet :
          DictHas(p[key].meta, M)
             /\ (DictGet(p[key].meta, M).list = ~metadata_reduction_map[M])
    /\ distArgs.attach_associates =>
          \A k \in 1..Len(associates) : \A key \in DictValues(associates[k]) :
              DictHas(p[key].meta, "associates")
    /\ manifest_csv # <<>>
    /\ FixedKey("metadata.csv") \in DOMAIN p
    /\ \A k \in 1..Len(dataset.extra_files) :
          \A j \in 1..Len(dataset.extra_files[k][2]) :
              [label |-> dataset.extra_files[k][1], hash |-> 0,
               name |-> Last(dataset.extra_files[k][2][j])] \in DOMAIN p

\* C25: push is called at most once, never without a push_uri and always with
\* one once distribute has gone past it; it is called on the finished package
\* with the name "{owner}/{normalized name}", the push_uri and the message;
\* distribute returns what push returned when it pushed, and the package
\* itself otherwise.
C25_PushOnceOnFinishedPackage ==
    /\ Len(pushed) <= 1
    /\ pushed # <<>> =>
          /\ pc \in {"returned", "raised"}
          /\ distArgs.push_uri # "None"
          /\ pushed[1].name = <<"me", C24_Normalized>>
          /\ pushed[1].dest = distArgs.push_uri
          /\ pushed[1].message = distArgs.message
          /\ pushed[1].pkg = pkg
          /\ C25_Finished(pushed[1].pkg)
    /\ pc = "returned" =>
          IF distArgs.push_uri = "None"
          THEN pushed = <<>> /\ ret = <<pkg>> /\ C25_Finished(pkg)
          ELSE Len(pushed) = 1 /\ ret = <<[pushed |-> pushed[1].pkg]>>
    /\ (pc = "raised" /\ AfterLoop) => Len(pushed) = 1

\* C25 witness: distribute pushed and returned push's result for a package with
\* a file entry, a directory entry, associates and an extra file
C25_Witness ==
    /\ pc = "returned"
    /\ Len(pushed) = 1
    /\ pushed[1].message = "some message"
    /\ distArgs.attach_associates
    /\ dataset.extra_files # <<>>
    /\ \E key \in DOMAIN pushed[1].pkg : pushed[1].pkg[key].kind = "dir"
    /\ \E key \in FileKeys : DictHas(pushed[1].pkg[key].meta, "associates")

\* the file a physical key names is there: a path of the temporary directory
\* while the directory exists, a path of the filesystem if it is a file of it
C29_PhysicalKeyExists(pk) ==
    IF pk.tmp THEN tmpdir = "exists" ELSE pk.parts \in FsFiles

\* C29: when distribute was called without a push_uri and has returned, every
\* file entry of the returned package, README.md and metadata.csv among them,
\* names a physical path that exists.
C29_ReturnedEntriesExist ==
    (pc = "returned" /\ distArgs.push_uri = "None") =>
        \A key \in DOMAIN ret[1] :
            ret[1][key].kind = "file" => C29_PhysicalKeyExists(ret[1][key].physical_key)

-----------------------------------------------------------------------------
(* Schema inference for one column (validation.py:94-120) *)

MaxInferLen == 3

\* column names: one with no path indicator, one with "path" in it, and one
\* with "file" in it that ends with "id"
InferColumns == {"Structure", "ReadPath", "FileId"}

\* the objects a column holds: a str, a Path, an int and a list
InferValues ==
    {Val("str", "a/0.tiff"), Val("Path", "a/0.tiff"), Val("int", "7"), Val("list", "[1]")}

InitInfer ==
    /\ ValidationIdle
    /\ KeyIdle
    /\ NameIdle
    /\ SettersIdle
    /\ DistributeIdle
    /\ pc = "infer"
    /\ \E col \in InferColumns, n \in 1..MaxInferLen : \E values \in [1..n -> InferValues] :
          inferIn = [col |-> col, values |-> values]
    /\ inferOut = <<>>
    /\ readmeLinks = <<>>
    /\ refOut = <<>>

\* the body of the loop of _generate_schema_template for the column
GenerateDefinition ==
    /\ pc = "infer"
    /\ inferOut = <<>>
    /\ inferOut' = <<InferredDefinition(inferIn.col, inferIn.values)>>
    /\ UNCHANGED <<valVars, keyVars, datasetVars, inferIn, readmeLinks, refOut>>

SpecInfer == InitInfer /\ [][GenerateDefinition]_vars

\* the distinct runtime types among the values given to the inference
C27_Types == {IF inferIn.values[k].t = "Path" THEN "PosixPath" ELSE inferIn.values[k].t :
                k \in 1..Len(inferIn.values)}

\* C27 as stated: the inferred definition of every column, the path-like ones
\* included, has cast_values true exactly if the column holds values of more
\* than one runtime type.
C27_CastIffSeveralTypes ==
    inferOut # <<>> => (inferOut[1].cast_values = (Cardinality(C27_Types) > 1))

\* C27 amended: cast_values is true exactly if the column holds values of more
\* than one runtime type or the column was classified as Path; only a column
\* with a path-like name is classified as Path.
C27_CastIffSeveralTypesOrPath ==
    inferOut # <<>> =>
        /\ inferOut[1].cast_values
              = (Cardinality(C27_Types) > 1 \/ inferOut[1].dtype = "Path")
        /\ inferOut[1].dtype = "Path" => inferIn.col = "ReadPath"

\* C27 witness: a column with a path-like name that holds only str values was
\* inferred, and its definition casts
C27_Witness ==
    /\ inferOut # <<>>
    /\ inferIn.col = "ReadPath"
    /\ Len(inferIn.values) = 2
    /\ C27_Types = {"str"}
    /\ inferOut[1].dtype = "Path"
    /\ inferOut[1].cast_values

-----------------------------------------------------------------------------
(* README.referenced_files (documentation.py:45-77) *)

MaxLinks == 2

\* what the inline links "[text](...)" of a README hold between the
\* parentheses: a file, a directory, a file with a hover title, a path that
\* does not exist, an external link, an anchor, and nothing
LinkPool ==
    {"a/0.tiff", "a", "a/0.tiff hover", "missing.png", "https://allencell.org",
     "#usage", ""}

\* documentation.py:66: match[match.index("]") + 2: -1].split(" ")[0]
TargetOf(link) == IF link = "a/0.tiff hover" THEN "a/0.tiff" ELSE link

\* documentation.py:69: any(sub in target.lower() for sub in ["https://", ...])
HasScheme(target) == target = "https://allencell.org"

RECURSIVE ReferencedFiles(_, _, _, _)
\* documentation.py:54-77, from match k on: the files found, the targets
\* warned about, and the exception that ended the loop; target[0] of an empty
\* str is an IndexError
ReferencedFiles(links, k, files, warned) ==
    IF k > Len(links) THEN [exc |-> "none", files |-> files, warned |-> warned]
    ELSE LET target == TargetOf(links[k]) IN
         IF HasScheme(target) THEN ReferencedFiles(links, k + 1, files, warned)
         ELSE IF target = "" THEN [exc |-> "IndexError", files |-> files, warned |-> warned]
         ELSE IF target = "#usage" THEN ReferencedFiles(links, k + 1, files, warned)
         ELSE LET resolved == Resolve(PathParts(PathOfStr(target))) IN
              IF resolved \in (FsFiles \cup FsDirs)
              THEN ReferencedFiles(links, k + 1,
                                   files \cup {[target |-> target, resolved |-> resolved]},
                                   warned)
              ELSE ReferencedFiles(links, k + 1, files, Append(warned, target))

InitReadme ==
    /\ ValidationIdle
    /\ KeyIdle
    /\ NameIdle
    /\ SettersIdle
    /\ DistributeIdle
    /\ pc = "readme"
    /\ inferIn = <<>>
    /\ inferOut = <<>>
    /\ \E n \in 0..MaxLinks : readmeLinks \in [1..n -> LinkPool]
    /\ refOut = <<>>

\* a caller reads readme.referenced_files
GetReferencedFiles ==
    /\ pc = "readme"
    /\ refOut = <<>>
    /\ refOut' = <<ReferencedFiles(readmeLinks, 1, {}, <<>>)>>
    /\ UNCHANGED <<valVars, keyVars, datasetVars, inferIn, inferOut, readmeLinks>>

SpecReadme == InitReadme /\ [][GetReferencedFiles]_vars

\* the targets of the README's links that are neither external nor anchors
C28_LocalTargets ==
    {TargetOf(readmeLinks[k]) : k \in 1..Len(readmeLinks)}
        \ {"https://allencell.org", "#usage"}

\* C28: referenced_files never raises; every link target that is neither
\* external nor an anchor, an empty target included, is recorded as a
\* referenced file if it resolves to an existing file or directory, and is
\* warned about otherwise.
C28_UnresolvableIsNeverFatal ==
    refOut # <<>> =>
        /\ refOut[1].exc = "none"
        /\ \A target \in C28_LocalTargets :
              \/ \E f \in refOut[1].files : f.target = target
              \/ \E k \in 1..Len(refOut[1].warned) : refOut[1].warned[k] = target


RECURSIVE C26_Sequential(_, _, _, _, _)
\* one column processed alone, rows in order, from row k on: the values left in
\* the column, the errored results, the exception ("none" if none) and the
\* number of rows that were entered
C26_Sequential(definition, values, k, errored, drop) ==
    IF k > Len(values)
    THEN [values |-> values, errored |-> errored, exc |-> "none", entered |-> Len(values)]
    ELSE LET r == CheckRow(definition, values[k])
             written == IF r.wrote THEN [values EXCEPT ![k] = r.val] ELSE values
         IN IF r.fail = "none"
            THEN C26_Sequential(definition, written, k + 1, errored, drop)
            ELSE IF drop
                 THEN C26_Sequential(definition, written, k + 1,
                          errored \cup {[index |-> k - 1, error |-> r.fail, func |-> r.func]},
                          drop)
                 ELSE [values |-> written, errored |-> errored,
                       exc |-> RaisedFor(r.fail), entered |-> k]

\* the columns processed one after the other in schema order
C26_SequentialRun ==
    [c \in ColumnSet |-> C26_Sequential(DefOf(c), input0.cols[c], 1, {}, drop_on_error)]

\* the first column in schema order whose sequential processing raises
C26_FirstRaising(run) ==
    LET raising == {k \in 1..Len(Columns) : run[Columns[k]].exc # "none"}
    IN IF raising = {} THEN <<>>
       ELSE <<Columns[CHOOSE k \in raising : \A j \in raising : k <= j]>>

\* the frame that sequential processing leaves and what drop makes of it
C26_SequentialDrop(run) ==
    FrameDrop([index |-> input0.index, cols |-> [c \in ColumnSet |-> run[c].values]],
              UNION {{er.index : er \in run[c].errored} : c \in ColumnSet})

\* C26: for every worker count and every interleaving of the per-column tasks,
\* a cell of the working copy is changed by the task of its own column only
\* (each column holds the sequential result up to the row its own task has
\* reached and the input beyond it), and the returned data, the per-column
\* errored results and, in fail-fast mode, the exception (that of the first
\* violating column in schema order) are those of processing the columns one
\* after the other in schema order.
C26_OutcomeIsThatOfSequentialRun ==
    ValidateEntered =>
        \A run \in {C26_SequentialRun} :
            /\ \A c \in ColumnSet :
                  /\ \A k \in 1..NRows(WorkingCopy) :
                        WorkingCopy.cols[c][k] =
                            IF k <= Len(task[c].log) THEN run[c].values[k]
                            ELSE input0.cols[c][k]
                  /\ task[c].errored \subseteq run[c].errored
                  /\ task[c].status = "done" => task[c].errored = run[c].errored
                  /\ task[c].status = "raised" =>
                        /\ task[c].exc = run[c].exc
                        /\ Len(task[c].log) = run[c].entered
            /\ Returned =>
                  /\ \A c \in ColumnSet :
                        {[index |-> er.index, error |-> er.error, func |-> er.func] :
                            er \in ret[1].schema[c].errored_results} = run[c].errored
                  /\ C26_FirstRaising(run) = <<>>
                  /\ IF drop_on_error
                     THEN /\ C26_SequentialDrop(run).ok
                          /\ frames[ret[1].data] = C26_SequentialDrop(run).frame
                     ELSE /\ frames[ret[1].data].index = input0.index
                          /\ \A c \in ColumnSet :
                                frames[ret[1].data].cols[c] = run[c].values
            /\ Raised =>
                  IF drop_on_error
                  THEN exc = "KeyError" /\ ~C26_SequentialDrop(run).ok
                  ELSE /\ C26_FirstRaising(run) # <<>>
                       /\ exc = run[C26_FirstRaising(run)[1]].exc
                       /\ task[C26_FirstRaising(run)[1]].status = "raised"

\* C26 witness: two workers ran both columns at once, both columns raised
\* different exceptions after a cast was written, and the caller got the
\* exception of the first column of the schema
C26_Witness ==
    /\ Raised
    /\ ~drop_on_error
    /\ n_workers = 2
    /\ \A c \in ColumnSet : task[c].status = "raised"
    /\ task[Columns[1]].exc # task[Columns[2]].exc
    /\ exc = task[Columns[1]].exc
    /\ \E c \in ColumnSet : \E k \in 1..Len(task[c].log) : task[c].log[k].wrote

\* the labels of the rows of a frame
C30_Labels(frame) == {frame.index[k] : k \in 1..NRows(frame)}

\* C30: validate(..., drop_on_error=True) removes exactly the rows at the
\* positions where some validator recorded an error, whatever the row labels of
\* the manifest are: a row that passed is never removed, a row that errored is
\* never kept, and dropping never fails.
C30_DropIsByPosition ==
    (ValidateEntered /\ drop_on_error) =>
        /\ ~(Raised /\ exc = "KeyError")
        /\ Returned =>
              \A k \in 1..NRows(WorkingCopy) :
                  (WorkingCopy.index[k] \in C30_Labels(frames[ret[1].data]))
                      <=> ((k - 1) \notin AllErroredRows)

====
